---- MODULE Spec2Model ----
(***************************************************************************)
(* State-machine model of the kali-web backend: the job execution pipeline *)
(* (jobs API, embedded task queue, job executor, tool runner) and the      *)
(* workflow execution engine (engine, run tasks, approve/cancel API).      *)
(***************************************************************************)
EXTENDS Integers, Sequences, FiniteSets, TLC

(***************************************************************************)
(* Bounds of the model                                                     *)
(***************************************************************************)
MaxJobs == 2
MaxLines == 2
MaxApprovals == 2
MaxCancels == 1
MaxTasks == 3
MaxTime == 4
MaxInterval == 2
MaxSessions == 2
MaxRuns == 3
MaxOutputLines == 3
MaxElems == 2
MaxPolls == 2

(* TaskQueue.__init__(max_workers=4), built by get_instance() *)
max_workers == 4

JobIds == 1..MaxJobs
Streams == {"stdout", "stderr"}
NoExit == -1
NoRun == -1

(* app.models.job.JobStatus values; "absent" is a row that does not exist *)
JobTerminal == {"completed", "failed", "timeout", "cancelled"}
JobStatuses == {"pending", "queued", "running"} \cup JobTerminal

(* tool_name of a job: a registered tool declaring a parser, a registered  *)
(* tool without one, or a name get_tool() does not resolve                 *)
ToolNames == {"with_parser", "no_parser", "unknown"}

get_tool(name) == name # "unknown"
tool_output_parser(name) == name = "with_parser"

VARIABLES
    jobStatus,      \* Job.status per job id ("absent": no row)
    jobTool,        \* Job.tool_name
    jobExit,        \* Job.exit_code (NoExit: NULL)
    jobCompletedAt, \* Job.completed_at is set
    jobRetryOf,     \* the job a retry copied (0: created by create_job)
    jobOutputs,     \* JobOutput rows per job, in insertion order
    tqRunning,      \* TaskQueue.running
    tasks,          \* TaskQueue.tasks, in creation order
    queue,          \* TaskQueue.queue (indices into tasks)
    wTask,          \* the task the worker loop is awaiting (0: waiting on queue.get)
    exPc,           \* position of execute_tool_async inside the worker
    exJob,          \* job_id argument of the running execute_tool_async
    exFound,        \* history: the job's status when its task was dequeued
    sequence,       \* the nonlocal sequence counter of output_callback
    rdPc,           \* position of each read_stream task
    rdSeq,          \* sequence value held by the JobOutput a reader is flushing
    procState,      \* sub-process: "none", "alive", "terminating", "exited", "killed"
    procExit,       \* returncode of the sub-process
    procAvail,      \* lines written to each pipe and not yet read
    procEmitted,    \* lines written to each pipe so far
    spawned,        \* jobs for which a sub-process was created
    reqCancel,      \* job whose job_action(cancel) awaits the get_db commit (0: none)
    cancelJob,      \* job_id argument of the cancel_job_async task
    cancelAsync,    \* position of cancel_job_async: "none", "select", "commit"
    wfDef,          \* Workflow.definition of the workflow being run
    runStatus,      \* WorkflowRun.status ("none": no run was created)
    runCurrent,     \* WorkflowRun.current_node_id ("": NULL)
    runLog,         \* WorkflowRun.execution_log
    runCompletedAt, \* WorkflowRun.completed_at is set
    runError,       \* WorkflowRun.error_message is set
    wfPc,           \* position of the workflow task inside the worker
    suspBy,         \* history: the manual node whose result suspended the run
    resumeFrom,     \* history: the run as the latest resume() found it
    tpShutdown,     \* TaskQueue.executor.shutdown() was called
    workerLoops,    \* number of live _worker loops
    schedLoops,     \* number of live _scheduler loops
    now,            \* datetime.utcnow(), in seconds
    schedAwake,     \* the _scheduler loop is due for an iteration (not in sleep(1))
    schedInterval,  \* _scheduled_tasks[0]["interval"] (0: nothing is scheduled)
    schedLast,      \* _scheduled_tasks[0]["last_run"] (NoRun: None)
    schedTimes,     \* history: the times at which the schedule was enqueued
    assetRows,      \* the assets table of one project, in insertion order
    vulnRows,       \* fingerprints of the vulnerabilities rows
    credRows,       \* fingerprints of the credentials rows
    resultRows,     \* fingerprints of the results rows, in insertion order
    upPc,           \* position of each request inside save_results
    upRun,          \* job and ParseOutput of each request's save_results
    upIdx,          \* index into parse_output.assets of each request
    upFound,        \* row found by the select of _upsert_asset (0: none)
    upRow,          \* the Asset object each request is about to flush
    upCache,        \* asset_cache of each request
    upStats,        \* stats of each request
    upStarted,      \* number of save_results calls so far
    upserted,       \* history: the ParsedAssets flushed, in flush order
    savedRuns,      \* history: job and output of the finished save_results calls
    lastRun,        \* history: the latest finished call, its stats, and whether
                    \* the same job and output had been saved before
    jobFields,      \* Job.project_id, parameters, command, priority, timeout_seconds
    retryReply,     \* the response to the latest job_action(retry) request
    parseReturn,    \* what parse_job_results_async returned per job ("none": not yet)
    parsedEvents,   \* jobs for which a job_status event with status parsed was published
    condData,       \* WorkflowContext._data of the context a condition is evaluated in
    condLeft,       \* the condition's left side: a dot-separated path, split in parts
    condOp,         \* the condition's operator
    condRight,      \* the condition's right side: a literal token or a ${path} reference
    condResult,     \* what evaluate_condition returned ("none": not called yet)
    jlLines,        \* the lines of a tool's stdout handed to the JSON-line parsers
    jlOut,          \* the ParseOutput each JSON-line parser returned (done: it ran)
    rvData,         \* WorkflowContext._data of the context a value is resolved in
    rvInput,        \* the value handed to resolve_value
    rvOutput,       \* what resolve_value returned
    rvDone,         \* whether resolve_value has returned
    tnJob,          \* the Job a ToolNode created (0: none yet)
    tnElapsed,      \* polls the ToolNode has made, each poll_interval long
    tnResult,       \* NodeResult.success of the ToolNode ("none": not returned)
    coros,          \* the coroutines of one traversal: the stack of _execute_node
                    \* frames of each, and its result once it has finished
    executed,       \* WorkflowEngine.executed
    logObjs,        \* the log_entry dicts of the traversal, in creation order
    logRefs,        \* run.execution_log: which dict each position refers to
    errorNode,      \* run.error_node_id ("": not set)
    visits,         \* history: the node ids in the order their entries were appended
    failures,       \* history: nodes whose execute() returned success=False or raised
    ctxData,        \* WorkflowContext._data of the engine: key -> value
    undefinedNodes, \* history: node ids for which _execute_node found no node object
    jobError,       \* Job.error_message per job id ("": NULL)
    events,         \* history: per job id, the events handed to the websocket manager
    cancelledAlive  \* history: jobs cancel_job_async cancelled while their sub-process ran

jobVars == <<jobStatus, jobTool, jobExit, jobCompletedAt, jobRetryOf, jobOutputs>>
tqVars == <<tqRunning, tasks, queue, wTask>>
exVars == <<exPc, exJob, exFound, sequence, rdPc, rdSeq>>
procVars == <<procState, procExit, procAvail, procEmitted, spawned>>
apiVars == <<reqCancel, cancelJob, cancelAsync>>

wfRunVars == <<wfDef, runStatus, runCurrent, runLog, runCompletedAt, runError, suspBy,
               resumeFrom>>
wfVars == <<wfPc, wfRunVars>>

lifeVars == <<tpShutdown, workerLoops, schedLoops>>
schedVars == <<now, schedAwake, schedInterval, schedLast, schedTimes>>
upsertVars == <<assetRows, vulnRows, credRows, resultRows, upPc, upRun, upIdx, upFound, upRow,
                upCache, upStats, upStarted, upserted, savedRuns, lastRun>>
retryVars == <<jobFields, retryReply>>
parseVars == <<parseReturn, parsedEvents>>
condVars == <<condData, condLeft, condOp, condRight, condResult>>
jsonlVars == <<jlLines, jlOut>>
resolveVars == <<rvData, rvInput, rvOutput, rvDone>>
toolVars == <<tnJob, tnElapsed, tnResult>>
engVars == <<coros, executed, logObjs, logRefs, errorNode, visits, failures, ctxData,
             undefinedNodes>>
pubVars == <<jobError, events, cancelledAlive>>
moreVars == <<jsonlVars, resolveVars, toolVars, engVars, pubVars>>
dataVars == <<upsertVars, retryVars, parseVars, condVars, moreVars>>
extVars == <<lifeVars, schedVars, dataVars>>

vars == <<jobVars, tqVars, exVars, procVars, apiVars, wfVars, extVars>>

(* the callables of api/v1/workflows.py that run as queue tasks *)
WorkflowFuncs == {"execute_workflow", "resume_workflow", "cancel_workflow"}

(***************************************************************************)
(* Task queue                                                              *)
(***************************************************************************)
Task(func, arg) ==
    [func |-> func, arg |-> arg, status |-> "pending", error |-> "", completed_at |-> FALSE]

(* callables with no other effect than returning or raising, async or sync *)
PlainFuncs == {"async_ok", "async_raises", "sync_ok", "sync_raises", "scheduled"}
RaisingFuncs == {"async_raises", "sync_raises"}

(* asyncio.iscoroutinefunction(task.func) is false: run_in_executor is used *)
IsSync(func) == func \in {"sync_ok", "sync_raises", "execute_tool"}

(* TaskQueue.enqueue: record the task and put it on the FIFO queue *)
enqueue(func, arg) ==
    /\ tasks' = Append(tasks, Task(func, arg))
    /\ queue' = Append(queue, Len(tasks) + 1)

NumRunning == Cardinality({t \in 1..Len(tasks) : tasks[t].status = "running"})
PendingTasks == {t \in 1..Len(tasks) : tasks[t].status = "pending"}

(* TaskQueue.start *)
TQStart ==
    /\ ~tqRunning
    /\ tqRunning' = TRUE
    /\ workerLoops' = workerLoops + 1
    /\ schedLoops' = schedLoops + 1
    /\ schedAwake' = TRUE
    /\ UNCHANGED <<wfVars, jobVars, tasks, queue, wTask, exVars, procVars, apiVars>>
    /\ UNCHANGED <<tpShutdown, now, schedInterval, schedLast, schedTimes>>
    /\ UNCHANGED dataVars

(* a worker taking the task put on the queue last *)
WorkerGetLast ==
    /\ tqRunning
    /\ workerLoops > 0
    /\ wTask = 0
    /\ queue # <<>>
    /\ LET t == queue[Len(queue)] IN
        /\ wTask' = t
        /\ queue' = SubSeq(queue, 1, Len(queue) - 1)
        /\ tasks' = [tasks EXCEPT ![t].status = "running"]
        /\ IF tasks[t].func = "execute_tool"
           THEN /\ exPc' = "start"
                /\ exJob' = tasks[t].arg
                /\ exFound' = jobStatus[tasks[t].arg]
           ELSE UNCHANGED <<exPc, exJob, exFound>>
        /\ wfPc' = IF tasks[t].func \in WorkflowFuncs THEN "begin" ELSE wfPc
    /\ UNCHANGED <<wfRunVars, jobVars, tqRunning, sequence, rdPc, rdSeq, procVars, apiVars>>
    /\ UNCHANGED extVars

(* TaskQueue._worker: queue.get() returns, the task is marked running and   *)
(* awaited; the loop takes no other task until that await returns          *)
WorkerGet ==
    /\ tqRunning
    /\ workerLoops > 0
    /\ wTask = 0
    /\ queue # <<>>
    /\ LET t == Head(queue) IN
        /\ wTask' = t
        /\ queue' = Tail(queue)
        /\ tasks' = [tasks EXCEPT ![t].status = "running"]
        /\ IF tasks[t].func = "execute_tool"
           THEN /\ exPc' = "start"
                /\ exJob' = tasks[t].arg
                /\ exFound' = jobStatus[tasks[t].arg]
           ELSE UNCHANGED <<exPc, exJob, exFound>>
        /\ wfPc' = IF tasks[t].func \in WorkflowFuncs THEN "begin" ELSE wfPc
    /\ UNCHANGED <<wfRunVars, jobVars, tqRunning, sequence, rdPc, rdSeq, procVars, apiVars>>
    /\ UNCHANGED extVars

(* TaskQueue._worker: the awaited callable returned; execute_tool closes    *)
(* its event loop, which ends the runner's tasks and drops its locals (a   *)
(* sub-process still alive stays alive)                                    *)
WorkerDone ==
    /\ wTask # 0
    /\ \/ tasks[wTask].func = "execute_tool" /\ exPc = "return"
       \/ tasks[wTask].func = "parse_job_results" /\ parseReturn[tasks[wTask].arg] # "none"
       \/ tasks[wTask].func \in WorkflowFuncs /\ wfPc = "return"
       \/ tasks[wTask].func \in PlainFuncs \ RaisingFuncs
    /\ ~(IsSync(tasks[wTask].func) /\ tpShutdown)
    /\ tasks' = [tasks EXCEPT ![wTask].status = "completed", ![wTask].completed_at = TRUE]
    /\ wTask' = 0
    /\ exPc' = "idle"
    /\ exJob' = 1
    /\ exFound' = "absent"
    /\ sequence' = 0
    /\ rdPc' = [s \in Streams |-> "eof"]
    /\ rdSeq' = [s \in Streams |-> 0]
    /\ procState' = IF procState = "alive" THEN "alive" ELSE "none"
    /\ procExit' = NoExit
    /\ procAvail' = [s \in Streams |-> 0]
    /\ procEmitted' = [s \in Streams |-> 0]
    /\ wfPc' = "idle"
    /\ UNCHANGED <<wfRunVars, jobVars, tqRunning, queue, spawned, apiVars>>
    /\ UNCHANGED extVars

(* a worker without the handler of Exception: the raise ends the loop *)
WorkerTaskFailedEndsLoop ==
    /\ wTask # 0
    /\ tasks[wTask].func \in RaisingFuncs
    /\ workerLoops' = 0
    /\ wTask' = 0
    /\ UNCHANGED <<wfVars, jobVars, tqRunning, tasks, queue, exVars, procVars, apiVars>>
    /\ UNCHANGED <<tpShutdown, schedLoops, schedVars>>
    /\ UNCHANGED dataVars

(* TaskQueue._worker lines 160-181: the awaited callable raised, or          *)
(* run_in_executor refused the sync callable because the thread pool was   *)
(* shut down; the handler of Exception records the failure and the loop    *)
(* goes on                                                                 *)
WorkerTaskFailed ==
    /\ wTask # 0
    /\ tasks[wTask].func \in PlainFuncs
    /\ \/ tasks[wTask].func \in RaisingFuncs
       \/ IsSync(tasks[wTask].func) /\ tpShutdown
    /\ tasks' = [tasks EXCEPT
                    ![wTask].status = "failed",
                    ![wTask].error = IF IsSync(tasks[wTask].func) /\ tpShutdown
                                     THEN "cannot schedule new futures after shutdown"
                                     ELSE "exception text",
                    ![wTask].completed_at = TRUE]
    /\ wTask' = 0
    /\ UNCHANGED <<wfVars, jobVars, tqRunning, queue, exVars, procVars, apiVars, extVars>>

(* TaskQueue.stop: running = False, both loops are cancelled and awaited,   *)
(* the thread pool is shut down. A task in flight is cancelled inside the  *)
(* worker's await: the finally clause sets completed_at, CancelledError    *)
(* passes the handler of Exception and ends the loop                       *)
TQStop ==
    /\ tqRunning' = FALSE
    /\ workerLoops' = 0
    /\ schedLoops' = 0
    /\ schedAwake' = FALSE
    /\ tpShutdown' = TRUE
    /\ wTask' = 0
    /\ tasks' = IF wTask # 0 /\ workerLoops > 0
                THEN [tasks EXCEPT ![wTask].completed_at = TRUE]
                ELSE tasks
    /\ UNCHANGED <<wfVars, jobVars, queue, exVars, procVars, apiVars>>
    /\ UNCHANGED <<now, schedInterval, schedLast, schedTimes>>
    /\ UNCHANGED dataVars

(* enqueue_task(func): a client hands a callable to the queue *)
enqueue_task(func) ==
    /\ Len(tasks) < MaxTasks
    /\ enqueue(func, 0)
    /\ UNCHANGED <<wfVars, jobVars, tqRunning, wTask, exVars, procVars, apiVars, extVars>>

(* TaskQueue.schedule: register a recurring callable *)
schedule(interval_seconds) ==
    /\ schedInterval = 0
    /\ schedInterval' = interval_seconds
    /\ schedLast' = NoRun
    /\ UNCHANGED <<wfVars, jobVars, tqVars, exVars, procVars, apiVars, lifeVars>>
    /\ UNCHANGED <<now, schedAwake, schedTimes>>
    /\ UNCHANGED dataVars

(* TaskQueue._scheduler lines 190-205: one iteration of the loop, up to the *)
(* sleep(1): a schedule never run, or last run interval or more seconds    *)
(* ago, is stamped and enqueued                                            *)
scheduler ==
    /\ tqRunning
    /\ schedLoops > 0
    /\ schedAwake
    /\ schedAwake' = FALSE
    /\ IF schedInterval # 0 /\ (schedLast = NoRun \/ now - schedLast >= schedInterval)
       THEN /\ schedLast' = now
            /\ schedTimes' = Append(schedTimes, now)
            /\ enqueue("scheduled", 0)
       ELSE UNCHANGED <<schedLast, schedTimes, tasks, queue>>
    /\ UNCHANGED <<wfVars, jobVars, tqRunning, wTask, exVars, procVars, apiVars, lifeVars>>
    /\ UNCHANGED <<now, schedInterval>>
    /\ UNCHANGED dataVars

(* one second passes; a live scheduler loop has gone to sleep before and   *)
(* wakes up                                                                *)
Tick ==
    /\ now < MaxTime
    /\ schedLoops > 0 => ~schedAwake
    /\ now' = now + 1
    /\ schedAwake' = (schedLoops > 0)
    /\ UNCHANGED <<wfVars, jobVars, tqVars, exVars, procVars, apiVars, lifeVars>>
    /\ UNCHANGED <<schedInterval, schedLast, schedTimes>>
    /\ UNCHANGED dataVars

(***************************************************************************)
(* Workflow context (WorkflowContext): path resolution and conditions      *)
(***************************************************************************)
(* JSON-shaped values of a context, tagged by their Python type; a float   *)
(* holds its value in tenths                                               *)
PyNull == [t |-> "NoneType"]
IntValue(n) == [t |-> "int", v |-> n]
FloatValue(tenths) == [t |-> "float", v |-> tenths]
BoolValue(b) == [t |-> "bool", v |-> b]
StrValue(s) == [t |-> "str", v |-> s]
ListValue(items) == [t |-> "list", v |-> items]
DictValue(entries) == [t |-> "dict", v |-> entries]

(* the strings of the model in str order, and the pairs (a, b) with a in b *)
StrOrder == <<"completed", "fail", "failed">>
StrRank(s) == CHOOSE i \in 1..Len(StrOrder) : StrOrder[i] = s
StrIn(a, b) == a = b \/ (a = "fail" /\ b = "failed")

(* one part of a dot-separated path: key, or key[index] (NoIndex: none) *)
NoIndex == -1
Part(key) == [key |-> key, index |-> NoIndex]
IndexedPart(key, index) == [key |-> key, index |-> index]

(* the contexts a condition is evaluated in *)
NoData == DictValue(<<>>)
RunData ==
    DictValue([k \in {"status", "count", "ports", "result", "error"} |->
        CASE k = "status" -> StrValue("failed")
          [] k = "count" -> IntValue(5)
          [] k = "ports" -> ListValue(<<IntValue(80), IntValue(443)>>)
          [] k = "result" -> DictValue([f \in {"exit_code"} |-> IntValue(0)])
          [] k = "error" -> PyNull])
Contexts == {NoData, RunData}

LeftPaths ==
    {<<Part("status")>>, <<Part("count")>>, <<Part("ports")>>, <<Part("error")>>,
     <<Part("missing")>>, <<Part("result"), Part("exit_code")>>,
     <<Part("result"), Part("missing")>>, <<Part("status"), Part("exit_code")>>,
     <<Part("error"), Part("exit_code")>>, <<IndexedPart("ports", 0)>>,
     <<IndexedPart("ports", 2)>>, <<IndexedPart("count", 0)>>}

Operators == {"==", "!=", ">=", "<=", ">", "<", "contains"}

(* the right side as written: the class of the token and what it denotes   *)
Token(kind, value) == [kind |-> kind, value |-> value]
RightTokens ==
    {Token("quoted", StrValue("failed")), Token("bare", StrValue("completed")),
     Token("bare", StrValue("fail")), Token("int", IntValue(5)), Token("int", IntValue(80)),
     Token("float", FloatValue(50)), Token("true", BoolValue(TRUE)),
     Token("false", BoolValue(FALSE)), Token("null", PyNull), Token("none", PyNull),
     Token("ref", <<Part("count")>>), Token("ref", <<Part("missing")>>)}

(* _resolve_path: walk the parts from self._data; a null value, a missing   *)
(* key, a step into a non-dict or an index out of range yield null         *)
RECURSIVE ResolveFrom(_, _, _)
ResolveFrom(value, parts, i) ==
    IF i > Len(parts) THEN value
    ELSE IF value = PyNull THEN PyNull
    ELSE LET part == parts[i] IN
         IF value.t = "dict" /\ part.key \in DOMAIN value.v
         THEN LET found == value.v[part.key] IN
              IF part.index = NoIndex THEN ResolveFrom(found, parts, i + 1)
              ELSE IF found.t = "list" /\ Len(found.v) > part.index
                   THEN ResolveFrom(found.v[part.index + 1], parts, i + 1)
                   ELSE PyNull
         ELSE PyNull

resolve_path(data, parts) == ResolveFrom(data, parts, 1)

(* _parse_literal: quotes removed, int() or float(), true/false, null/none, *)
(* otherwise the token itself as a string                                  *)
parse_literal(token) ==
    CASE token.kind \in {"quoted", "bare"} -> token.value
      [] token.kind \in {"int", "float"} -> token.value
      [] token.kind = "true" -> BoolValue(TRUE)
      [] token.kind = "false" -> BoolValue(FALSE)
      [] token.kind \in {"null", "none"} -> PyNull

(* Python's == and ordering on these values: bool, int and float compare   *)
(* as numbers, str with str; ordering any other pair raises TypeError      *)
IsNumber(x) == x.t \in {"int", "float", "bool"}
Tenths(x) ==
    CASE x.t = "int" -> 10 * x.v
      [] x.t = "float" -> x.v
      [] x.t = "bool" -> IF x.v THEN 10 ELSE 0
PyEq(a, b) ==
    IF IsNumber(a) /\ IsNumber(b) THEN Tenths(a) = Tenths(b)
    ELSE a.t = b.t /\ a = b
Orderable(a, b) == (IsNumber(a) /\ IsNumber(b)) \/ (a.t = "str" /\ b.t = "str")
Rank(x) == IF x.t = "str" THEN StrRank(x.v) ELSE Tenths(x)

(* _compare: TypeError and ValueError are caught and yield False *)
compare(left, op, right) ==
    CASE op = "==" -> PyEq(left, right)
      [] op = "!=" -> ~PyEq(left, right)
      [] op = ">" -> Orderable(left, right) /\ Rank(left) > Rank(right)
      [] op = "<" -> Orderable(left, right) /\ Rank(left) < Rank(right)
      [] op = ">=" -> Orderable(left, right) /\ Rank(left) >= Rank(right)
      [] op = "<=" -> Orderable(left, right) /\ Rank(left) <= Rank(right)
      [] op = "contains" ->
            IF left.t = "list" THEN \E i \in 1..Len(left.v) : PyEq(left.v[i], right)
            ELSE IF left.t = "str" THEN right.t = "str" /\ StrIn(right.v, left.v)
            ELSE FALSE

(* evaluate_condition on "left op right": the left side is resolved as a    *)
(* path, the right side as a reference when it starts with ${ and as a     *)
(* literal otherwise, and _compare decides                                 *)
evaluate_condition ==
    /\ condResult = "none"
    /\ LET left_value == resolve_path(condData, condLeft)
           right_value == IF condRight.kind = "ref"
                          THEN resolve_path(condData, condRight.value)
                          ELSE parse_literal(condRight)
       IN  condResult' = IF compare(left_value, condOp, right_value) THEN "True" ELSE "False"
    /\ UNCHANGED <<condData, condLeft, condOp, condRight>>
    /\ UNCHANGED <<jobVars, tqVars, exVars, procVars, apiVars, wfVars, lifeVars, schedVars,
                   upsertVars, retryVars, parseVars, moreVars>>

(***************************************************************************)
(* JSON-line parsers (nuclei, httpx, subfinder)                            *)
(***************************************************************************)
JsonlParsers == {"nuclei", "httpx", "subfinder"}

(* one line of output after strip(): a JSON object naming a host, a JSON   *)
(* value that is no object, a line json.loads rejects that starts with {,  *)
(* one that does not and holds no dot, one that does not and holds a dot,  *)
(* or an empty line                                                        *)
Line(kind, text) == [kind |-> kind, text |-> text]
OutputLines ==
    {Line("json", "a.example.com"), Line("json", "B.example.com"), Line("scalar", "42"),
     Line("broken", "{\"host\": "), Line("text", "[INF] done"),
     Line("dotted", "[INF] v2.9.1"), Line("blank", "")}

RECURSIVE SeqsUpTo(_, _)
SeqsUpTo(S, n) ==
    IF n = 0 THEN {<<>>}
    ELSE LET shorter == SeqsUpTo(S, n - 1)
         IN  shorter \cup {Append(q, x) : q \in shorter, x \in S}

(* str.lower() on the texts of the model *)
Lower(text) ==
    CASE text = "B.example.com" -> "b.example.com"
      [] text = "[INF] v2.9.1" -> "[inf] v2.9.1"
      [] text = "[INF] done" -> "[inf] done"
      [] OTHER -> text

NoOutput == [assets |-> <<>>, vulnerabilities |-> <<>>, results |-> <<>>, errors |-> <<>>,
             done |-> FALSE]

(* NucleiParser.parse: a finding yields a URL asset for a host not seen yet *)
(* and a vulnerability; a JSONDecodeError is recorded only for a line that *)
(* starts with {; any other exception is recorded                          *)
RECURSIVE NucleiFrom(_, _, _, _)
NucleiFrom(lines, i, seen_hosts, result) ==
    IF i > Len(lines) THEN result
    ELSE LET line == lines[i] IN
         CASE line.kind = "json" ->
                NucleiFrom(lines, i + 1, seen_hosts \cup {line.text},
                    [result EXCEPT
                        !.assets = IF line.text \in seen_hosts THEN @
                                   ELSE Append(@, line.text),
                        !.vulnerabilities = Append(@, line.text)])
           [] line.kind = "scalar" ->
                NucleiFrom(lines, i + 1, seen_hosts,
                    [result EXCEPT !.errors = Append(@, "Error processing finding")])
           [] line.kind = "broken" ->
                NucleiFrom(lines, i + 1, seen_hosts,
                    [result EXCEPT !.errors = Append(@, "JSON parse error")])
           [] OTHER -> NucleiFrom(lines, i + 1, seen_hosts, result)

(* HttpxParser.parse: a result with a url not seen yet yields a URL asset   *)
(* and an endpoint result; errors as in the nuclei parser                  *)
RECURSIVE HttpxFrom(_, _, _, _)
HttpxFrom(lines, i, seen_urls, result) ==
    IF i > Len(lines) THEN result
    ELSE LET line == lines[i] IN
         CASE line.kind = "json" ->
                IF line.text \in seen_urls THEN HttpxFrom(lines, i + 1, seen_urls, result)
                ELSE HttpxFrom(lines, i + 1, seen_urls \cup {line.text},
                         [result EXCEPT !.assets = Append(@, line.text),
                                        !.results = Append(@, line.text)])
           [] line.kind = "scalar" ->
                HttpxFrom(lines, i + 1, seen_urls,
                    [result EXCEPT !.errors = Append(@, "Error processing result")])
           [] line.kind = "broken" ->
                HttpxFrom(lines, i + 1, seen_urls,
                    [result EXCEPT !.errors = Append(@, "JSON parse error for line")])
           [] OTHER -> HttpxFrom(lines, i + 1, seen_urls, result)

(* SubfinderParser.parse: _add_subdomain lower-cases the name and adds an   *)
(* asset and a result for a name not seen yet; on JSONDecodeError a line   *)
(* holding a dot and not starting with { is taken as a subdomain, and no   *)
(* error is recorded                                                       *)
RECURSIVE SubfinderFrom(_, _, _, _)
SubfinderFrom(lines, i, seen, result) ==
    IF i > Len(lines) THEN result
    ELSE LET line == lines[i]
             subdomain == Lower(line.text)
         IN
         CASE line.kind \in {"json", "dotted"} ->
                IF subdomain \in seen THEN SubfinderFrom(lines, i + 1, seen, result)
                ELSE SubfinderFrom(lines, i + 1, seen \cup {subdomain},
                         [result EXCEPT !.assets = Append(@, subdomain),
                                        !.results = Append(@, subdomain)])
           [] line.kind = "scalar" ->
                SubfinderFrom(lines, i + 1, seen,
                    [result EXCEPT !.errors = Append(@, "Error processing line")])
           [] OTHER -> SubfinderFrom(lines, i + 1, seen, result)

parse(parser, output) ==
    CASE parser = "nuclei" -> NucleiFrom(output, 1, {}, NoOutput)
      [] parser = "httpx" -> HttpxFrom(output, 1, {}, NoOutput)
      [] parser = "subfinder" -> SubfinderFrom(output, 1, {}, NoOutput)

(* get_parser(name).parse(output, job) *)
parser_parse(parser) ==
    /\ ~jlOut[parser].done
    /\ jlOut' = [jlOut EXCEPT ![parser] = [parse(parser, jlLines) EXCEPT !.done = TRUE]]
    /\ UNCHANGED jlLines
    /\ UNCHANGED <<jobVars, tqVars, exVars, procVars, apiVars, wfVars, lifeVars, schedVars,
                   upsertVars, retryVars, parseVars, condVars, resolveVars, toolVars, engVars, pubVars>>

(***************************************************************************)
(* Workflow context: resolve_value                                         *)
(***************************************************************************)
(* a str as it is written in a workflow definition, split at the matches   *)
(* of \$\{([^}]+)\}: literal pieces and ${path} references                  *)
Lit(text) == [kind |-> "lit", text |-> text, path |-> <<>>]
Ref(path) == [kind |-> "ref", text |-> "", path |-> path]
Text(segments) == [t |-> "text", v |-> segments]

(* the insertion order of the keys of the model's dicts *)
KeyOrder == <<"status", "count", "ports", "result", "error", "exit_code", "target", "args">>
KeysOf(entries) == SelectSeq(KeyOrder, LAMBDA k : k \in DOMAIN entries)

(* repr() and str() of a JSON-shaped value *)
RECURSIVE PyRepr(_)
RECURSIVE ReprItems(_, _)
RECURSIVE ReprEntries(_, _, _)
PyRepr(value) ==
    CASE value.t = "NoneType" -> "None"
      [] value.t = "int" -> ToString(value.v)
      [] value.t = "float" -> ToString(value.v \div 10) \o "." \o ToString(value.v % 10)
      [] value.t = "bool" -> IF value.v THEN "True" ELSE "False"
      [] value.t = "str" -> "'" \o value.v \o "'"
      [] value.t = "list" -> "[" \o ReprItems(value.v, 1) \o "]"
      [] value.t = "dict" -> "{" \o ReprEntries(value.v, KeysOf(value.v), 1) \o "}"
ReprItems(items, i) ==
    IF i > Len(items) THEN ""
    ELSE (IF i > 1 THEN ", " ELSE "") \o PyRepr(items[i]) \o ReprItems(items, i + 1)
ReprEntries(entries, keys, i) ==
    IF i > Len(keys) THEN ""
    ELSE (IF i > 1 THEN ", " ELSE "") \o "'" \o keys[i] \o "': " \o PyRepr(entries[keys[i]])
         \o ReprEntries(entries, keys, i + 1)
PyStr(value) == IF value.t = "str" THEN value.v ELSE PyRepr(value)

(* replace_var: str() of the resolved value, "" when it is None *)
replace_var(data, segment) ==
    LET resolved == resolve_path(data, segment.path)
    IN  IF resolved # PyNull THEN PyStr(resolved) ELSE ""

(* re.sub(pattern, replace_var, value) from segment i on *)
RECURSIVE SubFrom(_, _, _)
SubFrom(data, segments, i) ==
    IF i > Len(segments) THEN ""
    ELSE (IF segments[i].kind = "ref" THEN replace_var(data, segments[i]) ELSE segments[i].text)
         \o SubFrom(data, segments, i + 1)

(* the substitution branch alone, whatever the string *)
resolve_string_substituted(data, segments) == StrValue(SubFrom(data, segments, 1))

(* _resolve_string: a string that is one reference yields the referenced   *)
(* value itself, any other string the substituted string                   *)
resolve_string(data, segments) ==
    IF Len(segments) = 1 /\ segments[1].kind = "ref"
    THEN resolve_path(data, segments[1].path)
    ELSE StrValue(SubFrom(data, segments, 1))

(* resolve_value: str, dict values and list elements are resolved, any     *)
(* other value is returned as it is                                        *)
RECURSIVE resolve_value(_, _)
resolve_value(data, value) ==
    CASE value.t = "text" -> resolve_string(data, value.v)
      [] value.t = "dict" ->
            DictValue([k \in DOMAIN value.v |-> resolve_value(data, value.v[k])])
      [] value.t = "list" ->
            ListValue([i \in 1..Len(value.v) |-> resolve_value(data, value.v[i])])
      [] OTHER -> value

(* the values resolve_value is applied to *)
Texts ==
    {Text(<<>>), Text(<<Lit("plain")>>), Text(<<Lit("${}")>>),
     Text(<<Ref(<<Part("status")>>)>>), Text(<<Ref(<<Part("count")>>)>>),
     Text(<<Ref(<<Part("ports")>>)>>), Text(<<Ref(<<Part("error")>>)>>),
     Text(<<Ref(<<Part("missing")>>)>>), Text(<<Ref(<<Part("result"), Part("exit_code")>>)>>),
     Text(<<Ref(<<IndexedPart("ports", 1)>>)>>), Text(<<Ref(<<IndexedPart("ports", 2)>>)>>),
     Text(<<Lit("x="), Ref(<<Part("missing")>>)>>),
     Text(<<Lit("n="), Ref(<<Part("count")>>), Lit(";")>>),
     Text(<<Ref(<<Part("count")>>), Ref(<<Part("error")>>)>>),
     Text(<<Lit("scan "), Ref(<<Part("status")>>), Lit(" on "), Ref(<<Part("ports")>>)>>),
     Text(<<Lit("r="), Ref(<<Part("result")>>)>>)}
Scalars == {PyNull, IntValue(7), BoolValue(FALSE), FloatValue(25)}
Resolvables ==
    LET flat == Texts \cup Scalars
        lists == {ListValue(q) : q \in SeqsUpTo(flat, MaxElems)}
        dicts == {DictValue([k \in {"target", "args"} |->
                      IF k = "target" THEN x ELSE ListValue(<<y>>)]) : x \in Texts, y \in flat}
    IN  flat \cup lists \cup dicts

context_resolve_value ==
    /\ ~rvDone
    /\ rvOutput' = resolve_value(rvData, rvInput)
    /\ rvDone' = TRUE
    /\ UNCHANGED <<rvData, rvInput>>
    /\ UNCHANGED <<jobVars, tqVars, exVars, procVars, apiVars, wfVars, lifeVars, schedVars,
                   upsertVars, retryVars, parseVars, condVars, jsonlVars, toolVars, engVars, pubVars>>

(***************************************************************************)
(* Jobs API                                                                *)
(***************************************************************************)
(* the fields of JobCreate a retry copies; DefaultFields leaves priority    *)
(* and timeout_seconds at their defaults (JobPriority.NORMAL, 3600)        *)
JobFields(project_id, parameters, command, priority, timeout_seconds) ==
    [project_id |-> project_id, parameters |-> parameters, command |-> command,
     priority |-> priority, timeout_seconds |-> timeout_seconds]
DefaultFields == JobFields("project-1", "-sV", "nmap -sV", 5, 3600)
UrgentFields == JobFields("project-2", "-A", "nmap -A", 10, 60)
JobFieldChoices == {DefaultFields, UrgentFields}

FreeJobs == {j \in JobIds : jobStatus[j] = "absent"}
NewJobId == CHOOSE j \in FreeJobs : \A k \in FreeJobs : j <= k

(* create_job with no scheduled_at: the tool must resolve; the job is      *)
(* stored, its executor task enqueued and its status set to queued         *)
create_job_with(tool, fields) ==
    /\ FreeJobs # {}
    /\ get_tool(tool)
    /\ LET j == NewJobId IN
        /\ jobStatus' = [jobStatus EXCEPT ![j] = "queued"]
        /\ jobTool' = [jobTool EXCEPT ![j] = tool]
        /\ jobFields' = [jobFields EXCEPT ![j] = fields]
        /\ enqueue("execute_tool", j)
    /\ UNCHANGED <<wfVars, jobExit, jobCompletedAt, jobRetryOf, jobOutputs, tqRunning, wTask,
                   exVars, procVars, apiVars>>
    /\ UNCHANGED <<lifeVars, schedVars, upsertVars, retryReply, parseVars, condVars, moreVars>>

(* create_job for a request that leaves priority and timeout_seconds at    *)
(* the defaults of JobCreate                                               *)
create_job(tool) == create_job_with(tool, DefaultFields)

OutsideJobs ==
    UNCHANGED <<lifeVars, schedVars, upsertVars, retryVars, parseVars, condVars, jsonlVars,
                resolveVars, toolVars, engVars>>

(* emit_job_status and emit_job_output: the event as handed over, with the *)
(* status the job's row holds at that moment                               *)
JobStatusEvent(status, persisted, by) ==
    [type |-> "job_status", status |-> status, persisted |-> persisted, by |-> by]
JobOutputEvent(output_type, persisted) ==
    [type |-> "job_output", status |-> output_type, persisted |-> persisted, by |-> "executor"]
Publish(j, e) == events' = [events EXCEPT ![j] = Append(@, e)]

(* job_action, action == "cancel": the handler checks the status it read,   *)
(* spawns cancel_job_async and marks the row cancelled in its session; one *)
(* cancel request is in flight at a time                                   *)
job_action_cancel(j) ==
    /\ jobStatus[j] \in {"pending", "queued", "running"}
    /\ reqCancel = 0
    /\ cancelAsync = "none"
    /\ reqCancel' = j
    /\ cancelJob' = j
    /\ cancelAsync' = "select"
    /\ UNCHANGED <<wfVars, jobVars, tqVars, exVars, procVars>>
    /\ UNCHANGED extVars

(* get_db: the request's session commits the handler's changes *)
job_action_commit ==
    /\ reqCancel # 0
    /\ reqCancel' = 0
    /\ jobStatus' = [jobStatus EXCEPT ![reqCancel] = "cancelled"]
    /\ jobCompletedAt' = [jobCompletedAt EXCEPT ![reqCancel] = TRUE]
    /\ UNCHANGED <<wfVars, jobTool, jobExit, jobRetryOf, jobOutputs, tqVars, exVars, procVars,
                   cancelJob, cancelAsync>>
    /\ UNCHANGED extVars

(* cancel_job_async: load the job; anything but running ends the task *)
cancel_job_select ==
    /\ cancelAsync = "select"
    /\ cancelAsync' = IF jobStatus[cancelJob] = "running" THEN "commit" ELSE "none"
    /\ UNCHANGED <<wfVars, jobVars, tqVars, exVars, procVars, reqCancel, cancelJob>>
    /\ UNCHANGED extVars

(* cancel_job_async: status = cancelled, completed_at, commit *)
cancel_job_commit ==
    /\ cancelAsync = "commit"
    /\ cancelAsync' = "none"
    /\ jobStatus' = [jobStatus EXCEPT ![cancelJob] = "cancelled"]
    /\ jobCompletedAt' = [jobCompletedAt EXCEPT ![cancelJob] = TRUE]
    /\ UNCHANGED <<wfVars, jobTool, jobExit, jobRetryOf, jobOutputs, tqVars, exVars, procVars,
                   reqCancel, cancelJob>>
    /\ Publish(cancelJob, JobStatusEvent("cancelled", "cancelled", "cancel_job"))
    /\ cancelledAlive' = IF wTask # 0 /\ exJob = cancelJob /\ exPc = "wait" /\ procState = "alive"
                         THEN cancelledAlive \cup {cancelJob}
                         ELSE cancelledAlive
    /\ UNCHANGED jobError
    /\ OutsideJobs

(* job_action, action == "retry": a new queued job copying the old one,     *)
(* and its executor task                                                   *)
Retryable == {"failed", "cancelled", "timeout"}

(* a retry whose new Job takes the column defaults for priority and        *)
(* timeout_seconds                                                         *)
job_action_retry_defaults(j) ==
    /\ jobStatus[j] \in Retryable
    /\ FreeJobs # {}
    /\ LET n == NewJobId IN
        /\ jobStatus' = [jobStatus EXCEPT ![n] = "queued"]
        /\ jobTool' = [jobTool EXCEPT ![n] = jobTool[j]]
        /\ jobFields' = [jobFields EXCEPT ![n] =
                             [jobFields[j] EXCEPT !.priority = DefaultFields.priority,
                                                  !.timeout_seconds =
                                                      DefaultFields.timeout_seconds]]
        /\ jobRetryOf' = [jobRetryOf EXCEPT ![n] = j]
        /\ enqueue("execute_tool", n)
    /\ retryReply' = "retried"
    /\ UNCHANGED <<wfVars, jobExit, jobCompletedAt, jobOutputs, tqRunning, wTask, exVars,
                   procVars, apiVars>>
    /\ UNCHANGED <<lifeVars, schedVars, upsertVars, parseVars, condVars, moreVars>>

job_action_retry(j) ==
    /\ jobStatus[j] \in Retryable
    /\ FreeJobs # {}
    /\ LET n == NewJobId IN
        /\ jobStatus' = [jobStatus EXCEPT ![n] = "queued"]
        /\ jobTool' = [jobTool EXCEPT ![n] = jobTool[j]]
        /\ jobFields' = [jobFields EXCEPT ![n] = jobFields[j]]
        /\ jobRetryOf' = [jobRetryOf EXCEPT ![n] = j]
        /\ enqueue("execute_tool", n)
    /\ retryReply' = "retried"
    /\ UNCHANGED <<wfVars, jobExit, jobCompletedAt, jobOutputs, tqRunning, wTask, exVars,
                   procVars, apiVars>>
    /\ UNCHANGED <<lifeVars, schedVars, upsertVars, parseVars, condVars, moreVars>>

(* job_action, action == "retry", on a missing job (NotFoundError) or on a  *)
(* job in another status (BadRequestError): nothing is written             *)
job_action_retry_rejected(j) ==
    /\ jobStatus[j] \notin Retryable
    /\ retryReply' = IF jobStatus[j] = "absent" THEN "not_found" ELSE "bad_request"
    /\ UNCHANGED <<wfVars, jobVars, tqVars, exVars, procVars, apiVars>>
    /\ UNCHANGED <<lifeVars, schedVars, upsertVars, jobFields, parseVars, condVars, moreVars>>

(***************************************************************************)
(* Job executor (execute_tool_async) and tool runner (ToolRunner.run)      *)
(***************************************************************************)
(* lines 99-103: the status the exit code decides; the variant that calls  *)
(* every exit a success comes first                                        *)
exit_status_completed(exit_code) == "completed"
exit_status(exit_code) == IF exit_code = 0 THEN "completed" ELSE "failed"

SetTerminal(j, status, code) ==
    /\ jobStatus' = [jobStatus EXCEPT ![j] = status]
    /\ jobExit' = [jobExit EXCEPT ![j] = code]
    /\ jobCompletedAt' = [jobCompletedAt EXCEPT ![j] = TRUE]

(* execute_tool_async lines 38-59: load the job, resolve the tool, then     *)
(* either fail the job or mark it running; the loaded status is not read   *)
ExStart ==
    /\ exPc = "start"
    /\ IF ~get_tool(jobTool[exJob])
       THEN /\ SetTerminal(exJob, "failed", jobExit[exJob])
            /\ jobError' = [jobError EXCEPT ![exJob] = "Tool not found"]
            /\ exPc' = "return"
       ELSE /\ jobStatus' = [jobStatus EXCEPT ![exJob] = "running"]
            /\ exPc' = "spawn"
            /\ UNCHANGED <<wfVars, jobExit, jobCompletedAt, jobError>>
    /\ UNCHANGED <<wfVars, jobTool, jobRetryOf, jobOutputs, tqVars, exJob, exFound, sequence, rdPc, rdSeq,
                   procVars, apiVars>>
    /\ UNCHANGED <<events, cancelledAlive>>
    /\ OutsideJobs

(* lines 62-94 and ToolRunner.run lines 56-85: sequence = 0, the            *)
(* sub-process is created and the two read_stream tasks are started        *)
ExSpawn ==
    /\ exPc = "spawn"
    /\ exPc' = "wait"
    /\ sequence' = 0
    /\ rdPc' = [s \in Streams |-> "read"]
    /\ rdSeq' = [s \in Streams |-> 0]
    /\ procState' = "alive"
    /\ procExit' = NoExit
    /\ procAvail' = [s \in Streams |-> 0]
    /\ procEmitted' = [s \in Streams |-> 0]
    /\ spawned' = spawned \cup {exJob}
    /\ UNCHANGED <<wfVars, jobVars, tqVars, exJob, exFound, apiVars>>
    /\ Publish(exJob, JobStatusEvent("running", jobStatus[exJob], "executor"))
    /\ UNCHANGED <<jobError, cancelledAlive>>
    /\ OutsideJobs

(* run() lines 54-62 and 98-100: create_subprocess_shell raises, run()     *)
(* re-raises; no sub-process exists                                        *)
ExSpawnFails ==
    /\ exPc = "spawn"
    /\ exPc' = "errored"
    /\ UNCHANGED <<wfVars, jobVars, tqVars, exJob, exFound, sequence, rdPc, rdSeq, procVars, apiVars>>
    /\ Publish(exJob, JobStatusEvent("running", jobStatus[exJob], "executor"))
    /\ UNCHANGED <<jobError, cancelledAlive>>
    /\ OutsideJobs

(* the sub-process writes a line to one of its pipes *)
ProcEmit(s) ==
    /\ procState = "alive"
    /\ exPc \in {"wait", "errored"}
    /\ procEmitted[s] < MaxLines
    /\ procEmitted' = [procEmitted EXCEPT ![s] = @ + 1]
    /\ procAvail' = [procAvail EXCEPT ![s] = @ + 1]
    /\ UNCHANGED <<wfVars, jobVars, tqVars, exVars, procState, procExit, spawned, apiVars>>
    /\ UNCHANGED extVars

(* the sub-process exits on its own *)
ProcExit(code) ==
    /\ procState = "alive"
    /\ procState' = "exited"
    /\ procExit' = code
    /\ UNCHANGED <<wfVars, jobVars, tqVars, exVars, procAvail, procEmitted, spawned, apiVars>>
    /\ UNCHANGED extVars

ReadersActive == exPc \in {"wait", "errored"}

(* read_stream + output_callback up to the await of db.flush(): the line is *)
(* read, a JobOutput carrying the current sequence is added to the session *)
ReaderLine(s) ==
    /\ ReadersActive
    /\ rdPc[s] = "read"
    /\ procAvail[s] > 0
    /\ procAvail' = [procAvail EXCEPT ![s] = @ - 1]
    /\ rdSeq' = [rdSeq EXCEPT ![s] = sequence]
    /\ rdPc' = [rdPc EXCEPT ![s] = "flush"]
    /\ UNCHANGED <<wfVars, jobVars, tqVars, exPc, exJob, exFound, sequence, procState, procExit,
                   procEmitted, spawned, apiVars>>
    /\ UNCHANGED extVars

(* output_callback after db.flush() returned: the row is stored, then       *)
(* sequence += 1                                                           *)
ReaderFlushed(s) ==
    /\ ReadersActive
    /\ rdPc[s] = "flush"
    /\ jobOutputs' = [jobOutputs EXCEPT
                         ![exJob] = Append(@, [sequence |-> rdSeq[s], output_type |-> s])]
    /\ sequence' = sequence + 1
    /\ rdPc' = [rdPc EXCEPT ![s] = "read"]
    /\ UNCHANGED <<wfVars, jobStatus, jobTool, jobExit, jobCompletedAt, jobRetryOf, tqVars, exPc,
                   exJob, exFound, rdSeq, procVars, apiVars>>
    /\ Publish(exJob, JobOutputEvent(s, jobStatus[exJob]))
    /\ UNCHANGED <<jobError, cancelledAlive>>
    /\ OutsideJobs

(* db.flush() raises inside output_callback: read_stream ends with the      *)
(* error, gather and run() re-raise it; the sub-process is left as it is   *)
ReaderFlushFails(s) ==
    /\ exPc = "wait"
    /\ rdPc[s] = "flush"
    /\ rdPc' = [rdPc EXCEPT ![s] = "error"]
    /\ exPc' = "errored"
    /\ UNCHANGED <<wfVars, jobVars, tqVars, exJob, exFound, sequence, rdSeq, procVars, apiVars>>
    /\ UNCHANGED extVars

(* read_stream: readline() returns b"" once the pipe is closed and drained *)
ReaderEOF(s) ==
    /\ ReadersActive
    /\ rdPc[s] = "read"
    /\ procAvail[s] = 0
    /\ procState \in {"exited", "killed"}
    /\ rdPc' = [rdPc EXCEPT ![s] = "eof"]
    /\ UNCHANGED <<wfVars, jobVars, tqVars, exPc, exJob, exFound, sequence, rdSeq, procVars, apiVars>>
    /\ UNCHANGED extVars

(* run() lines 82-94 and execute_tool_async lines 96-105: gather finished,  *)
(* the exit code decides completed or failed, commit                       *)
ExRunnerReturned ==
    /\ exPc = "wait"
    /\ \A s \in Streams : rdPc[s] = "eof"
    /\ procState = "exited"
    /\ SetTerminal(exJob, exit_status(procExit), procExit)
    /\ exPc' = "emitted"
    /\ UNCHANGED <<wfVars, jobTool, jobRetryOf, jobOutputs, tqVars, exJob, exFound, sequence, rdPc, rdSeq,
                   procVars, apiVars>>
    /\ jobError' = IF procExit = 0 THEN jobError
                   ELSE [jobError EXCEPT ![exJob] = "Tool exited with code " \o ToString(procExit)]
    /\ UNCHANGED <<events, cancelledAlive>>
    /\ OutsideJobs

(* lines 108-121: after the status event, the parse task is enqueued when   *)
(* exit_code == 0 and the tool declares a parser                           *)
ExEnqueueParse ==
    /\ exPc = "emitted"
    /\ exPc' = "return"
    /\ IF procExit = 0 /\ tool_output_parser(jobTool[exJob])
       THEN enqueue("parse_job_results", exJob)
       ELSE UNCHANGED <<wfVars, tasks, queue>>
    /\ UNCHANGED <<wfVars, jobVars, tqRunning, wTask, exJob, exFound, sequence, rdPc, rdSeq, procVars,
                   apiVars>>
    /\ Publish(exJob, JobStatusEvent(exit_status(procExit), jobStatus[exJob], "executor"))
    /\ UNCHANGED <<jobError, cancelledAlive>>
    /\ OutsideJobs

(* parse_job_results_async: load the job, resolve the tool and its parser,  *)
(* read the stdout rows, then await parser.parse(stdout, job, db): parse   *)
(* takes (output, job), so the call raises TypeError, which the handler of *)
(* Exception turns into the return value; save_results is not called and   *)
(* no event is published on any path                                       *)
get_parser(name) == name = "with_parser"

parse_job_results ==
    /\ wTask # 0
    /\ tasks[wTask].func = "parse_job_results"
    /\ parseReturn[tasks[wTask].arg] = "none"
    /\ LET j == tasks[wTask].arg IN
        parseReturn' = [parseReturn EXCEPT ![j] =
            IF jobStatus[j] = "absent" THEN "Job not found"
            ELSE IF ~get_tool(jobTool[j]) \/ ~tool_output_parser(jobTool[j])
                 THEN "No parser for tool"
            ELSE IF ~get_parser(jobTool[j]) THEN "Parser not found"
            ELSE "parse() takes 3 positional arguments but 4 were given"]
    /\ UNCHANGED <<wfVars, jobVars, tqVars, exVars, procVars, apiVars>>
    /\ UNCHANGED <<lifeVars, schedVars, upsertVars, retryVars, parsedEvents, condVars, moreVars>>

(* ToolRunner.kill lines 104-107: terminate() is sent to a sub-process     *)
(* that has not exited                                                     *)
kill_terminate(state) == IF state = "alive" THEN "terminating" ELSE state

(* ToolRunner.kill lines 108-113: the sub-process ends within 5 seconds of *)
(* terminate(), or is killed and waited for; the variant that returns      *)
(* without waiting comes first                                             *)
kill_wait_skipped(state) == state
kill_wait(state) == IF state = "terminating" THEN "killed" ELSE state

(* run() lines 88-90: the wait_for deadline fires, the reader tasks are     *)
(* cancelled and kill() sends terminate()                                  *)
RunnerTimeout ==
    /\ exPc = "wait"
    /\ exPc' = "killing"
    /\ rdPc' = [s \in Streams |-> IF rdPc[s] = "eof" THEN "eof" ELSE "cancelled"]
    /\ procState' = kill_terminate(procState)
    /\ UNCHANGED <<wfVars, jobVars, tqVars, exJob, exFound, sequence, rdSeq, procExit, procAvail,
                   procEmitted, spawned, apiVars>>
    /\ UNCHANGED extVars

(* kill() lines 108-116 and run() line 91: kill() returns once the         *)
(* sub-process is gone, then TimeoutError is re-raised                     *)
RunnerKilled ==
    /\ exPc = "killing"
    /\ exPc' = "timed_out"
    /\ procState' = kill_wait(procState)
    /\ UNCHANGED <<wfVars, jobVars, tqVars, exJob, exFound, sequence, rdPc, rdSeq, procExit,
                   procAvail, procEmitted, spawned, apiVars>>
    /\ UNCHANGED extVars

(* execute_tool_async lines 123-129: the asyncio.TimeoutError handler *)
ExTimeout ==
    /\ exPc = "timed_out"
    /\ SetTerminal(exJob, "failed", jobExit[exJob])
    /\ exPc' = "return"
    /\ UNCHANGED <<wfVars, jobTool, jobRetryOf, jobOutputs, tqVars, exJob, exFound, sequence, rdPc, rdSeq,
                   procVars, apiVars>>
    /\ jobError' = [jobError EXCEPT ![exJob] = "Execution timed out"]
    /\ Publish(exJob, JobStatusEvent("timeout", "failed", "executor"))
    /\ UNCHANGED cancelledAlive
    /\ OutsideJobs

(* execute_tool_async lines 131-138: the handler of any other exception *)
ExError ==
    /\ exPc = "errored"
    /\ SetTerminal(exJob, "failed", jobExit[exJob])
    /\ exPc' = "return"
    /\ UNCHANGED <<wfVars, jobTool, jobRetryOf, jobOutputs, tqVars, exJob, exFound, sequence, rdPc, rdSeq,
                   procVars, apiVars>>
    /\ jobError' = [jobError EXCEPT ![exJob] = "error"]
    /\ Publish(exJob, JobStatusEvent("failed", "failed", "executor"))
    /\ UNCHANGED cancelledAlive
    /\ OutsideJobs

(***************************************************************************)
(* Specification of the job pipeline                                       *)
(***************************************************************************)
(***************************************************************************)
(* Workflow definitions                                                    *)
(***************************************************************************)
Node(id, type) == [id |-> id, type |-> type]
Edge(source, target) == [source |-> source, target |-> target]

(* Node types modelled: "delay" succeeds, "manual" asks for approval, and   *)
(* "tool" names a tool get_tool() does not resolve, so ToolNode.execute    *)
(* returns success=False without creating a job                            *)
NodeTypes == {"delay", "manual", "tool"}

(* A -> B -> C with B manual (acceptance scenario "Workflow resume") *)
WfChain ==
    [nodes |-> <<Node("A", "delay"), Node("B", "manual"), Node("C", "delay")>>,
     edges |-> <<Edge("A", "B"), Edge("B", "C")>>]
(* A -> B and A -> C, B manual: C is a pending sibling branch of B *)
WfSibling ==
    [nodes |-> <<Node("A", "delay"), Node("B", "manual"), Node("C", "delay")>>,
     edges |-> <<Edge("A", "B"), Edge("A", "C")>>]
(* A -> C -> D and A -> B -> D, B manual: D runs before the suspension *)
WfDiamond ==
    [nodes |-> <<Node("A", "delay"), Node("B", "manual"), Node("C", "delay"),
                 Node("D", "delay")>>,
     edges |-> <<Edge("A", "C"), Edge("A", "B"), Edge("C", "D"), Edge("B", "D")>>]
(* two start nodes: A manual -> B, and C *)
WfTwoStarts ==
    [nodes |-> <<Node("A", "manual"), Node("B", "delay"), Node("C", "delay")>>,
     edges |-> <<Edge("A", "B")>>]
(* A manual -> B manual -> C: a second approval on the resumed path *)
WfTwoManual ==
    [nodes |-> <<Node("A", "manual"), Node("B", "manual"), Node("C", "delay")>>,
     edges |-> <<Edge("A", "B"), Edge("B", "C")>>]
(* a failing start node *)
WfFailStart ==
    [nodes |-> <<Node("A", "tool"), Node("B", "delay")>>,
     edges |-> <<Edge("A", "B")>>]
(* no manual node *)
WfPlain ==
    [nodes |-> <<Node("A", "delay"), Node("B", "delay")>>,
     edges |-> <<Edge("A", "B")>>]

Workflows == {WfChain, WfSibling, WfDiamond, WfTwoStarts, WfTwoManual, WfFailStart,
              WfPlain}

NodeIds(g) == {g.nodes[i].id : i \in 1..Len(g.nodes)}
HasNode(g, n) == n \in NodeIds(g)
NodeType(g, n) == (CHOOSE i \in 1..Len(g.nodes) : g.nodes[i].id = n)
NodeTypeOf(g, n) == g.nodes[NodeType(g, n)].type

(* WorkflowEngine.__init__: adjacency, the outgoing edges in definition order *)
adjacency(g, n) == SelectSeq(g.edges, LAMBDA e : e.source = n)

(* WorkflowEngine.execute lines 91-98: nodes with no incoming edge, in       *)
(* definition order; the first node when there is none                     *)
start_node_ids(g) ==
    LET target_nodes == {g.edges[i].target : i \in 1..Len(g.edges)}
        ids == [i \in 1..Len(g.nodes) |-> g.nodes[i].id]
        starts == SelectSeq(ids, LAMBDA n : n \notin target_nodes)
    IN IF starts = <<>> THEN SubSeq(ids, 1, 1) ELSE starts

(***************************************************************************)
(* Workflow engine                                                         *)
(***************************************************************************)
(* NodeResult: kind "ok" (success), "fail" (success=False), "approval"      *)
(* (success with data.approval_required, data.node_id = node), "skipped",  *)
(* "none" (_execute_node returned None)                                    *)
NodeResult(kind, node) == [kind |-> kind, node |-> node]

(* node.execute(db) of DelayNode, ManualNode and of ToolNode on an unknown tool *)
node_execute(type, n) ==
    CASE type = "manual" -> NodeResult("approval", n)
      [] type = "delay" -> NodeResult("ok", n)
      [] type = "condition" -> NodeResult("ok", n)
      [] OTHER -> NodeResult("fail", n)

(* the engine's state during one traversal: self.executed and the run's     *)
(* execution_log and current_node_id                                       *)
EngineState(nodes, log, cur) == [executed |-> nodes, log |-> log, cur |-> cur]

LogEntry(n, status) == [node_id |-> n, status |-> status]

RECURSIVE execute_node(_, _, _)
RECURSIVE ExecuteSuccessors(_, _, _, _, _)

(* WorkflowEngine._execute_node *)
execute_node(g, st, n) ==
    IF n \in st.executed THEN [st |-> st, res |-> NodeResult("skipped", n)]
    ELSE IF ~HasNode(g, n) \/ NodeTypeOf(g, n) \notin NodeTypes
    THEN [st |-> st, res |-> NodeResult("none", n)]
    ELSE
        LET result == node_execute(NodeTypeOf(g, n), n)
            log1 == Append(st.log, LogEntry(n, "running"))
            log2 == [log1 EXCEPT ![Len(log1)] =
                        LogEntry(n, IF result.kind = "fail" THEN "failed" ELSE "completed")]
            st1 == EngineState(
                       IF result.kind = "approval" THEN st.executed
                                                   ELSE st.executed \cup {n},
                       log2, n)
        IN  IF result.kind \in {"fail", "approval"}
            THEN [st |-> st1, res |-> result]
            ELSE ExecuteSuccessors(g, st1, adjacency(g, n), 1, result)

(* _execute_node lines 288-297: the successors in edge order; an approval   *)
(* requirement of a child is returned at once, any other child result is   *)
(* dropped                                                                 *)
ExecuteSuccessors(g, st, es, i, own) ==
    IF i > Len(es) THEN [st |-> st, res |-> own]
    ELSE
        LET child == execute_node(g, st, es[i].target)
        IN  IF child.res.kind = "approval" THEN child
            ELSE ExecuteSuccessors(g, child.st, es, i + 1, own)

(* outcome of execute()/resume(): the engine state, the status written, the *)
(* manual node that asked for approval                                     *)
Outcome(st, status, by) == [st |-> st, status |-> status, by |-> by]

RECURSIVE ExecuteLoop(_, _, _, _)
(* WorkflowEngine.execute lines 100-135 *)
ExecuteLoop(g, st, ids, i) ==
    IF i > Len(ids) THEN Outcome(st, "completed", "")
    ELSE
        LET r == execute_node(g, st, ids[i])
        IN  IF r.res.kind = "approval"
            THEN Outcome([r.st EXCEPT !.cur = ids[i]], "waiting_approval", r.res.node)
            ELSE IF r.res.kind \in {"none", "fail"}
            THEN Outcome(r.st, "failed", "")
            ELSE ExecuteLoop(g, r.st, ids, i + 1)

RECURSIVE ResumeLoop(_, _, _, _)
(* WorkflowEngine.resume lines 168-203 *)
ResumeLoop(g, st, es, i) ==
    IF i > Len(es) THEN Outcome(st, "completed", "")
    ELSE
        LET r == execute_node(g, st, es[i].target)
        IN  IF r.res.kind = "approval"
            THEN Outcome([r.st EXCEPT !.cur = es[i].target], "waiting_approval",
                         r.res.node)
            ELSE ResumeLoop(g, r.st, es, i + 1)

(* WorkflowEngine.execute on a run with the given log and current node *)
engine_execute(g, log, cur) ==
    ExecuteLoop(g, EngineState({}, log, cur), start_node_ids(g), 1)

(* WorkflowEngine.resume: a new engine whose executed set holds node_id only *)
engine_resume(g, log, cur, node_id) ==
    ResumeLoop(g, EngineState({node_id}, log, cur), adjacency(g, node_id), 1)

(***************************************************************************)
(* Workflows API and workflow tasks                                        *)
(***************************************************************************)
RunTerminal == {"completed", "failed", "cancelled"}

NumTasks(func) == Cardinality({t \in 1..Len(tasks) : tasks[t].func = func})

(* run_workflow: a pending run and its execute_workflow_task *)
run_workflow ==
    /\ runStatus = "none"
    /\ runStatus' = "pending"
    /\ enqueue("execute_workflow", "")
    /\ UNCHANGED <<jobVars, tqRunning, wTask, exVars, procVars, apiVars, wfPc, wfDef,
                   runCurrent, runLog, runCompletedAt, runError, suspBy, resumeFrom>>
    /\ UNCHANGED extVars

(* approve_workflow_step: only the status is checked; data.node_id is       *)
(* handed to resume_workflow_task as given                                 *)
approve_workflow_step(node_id) ==
    /\ runStatus = "waiting_approval"
    /\ NumTasks("resume_workflow") < MaxApprovals
    /\ enqueue("resume_workflow", node_id)
    /\ UNCHANGED <<jobVars, tqRunning, wTask, exVars, procVars, apiVars, wfVars>>
    /\ UNCHANGED extVars

(* cancel_workflow_run: rejected on a finished run, else the cancel task    *)
(* is enqueued                                                             *)
cancel_workflow_run ==
    /\ runStatus \notin RunTerminal \cup {"none"}
    /\ NumTasks("cancel_workflow") < MaxCancels
    /\ enqueue("cancel_workflow", "")
    /\ UNCHANGED <<jobVars, tqRunning, wTask, exVars, procVars, apiVars, wfVars>>
    /\ UNCHANGED extVars

WfTaskAt(func, pc) == wTask # 0 /\ tasks[wTask].func = func /\ wfPc = pc

(* the run's fields as a traversal leaves them *)
StoreOutcome(o) ==
    /\ runStatus' = o.status
    /\ runLog' = o.st.log
    /\ runCurrent' = o.st.cur
    /\ runCompletedAt' = (runCompletedAt \/ o.status \in {"completed", "failed"})
    /\ runError' = (runError \/ o.status = "failed")
    /\ suspBy' = IF o.status = "waiting_approval" THEN o.by ELSE suspBy

(* execute_workflow_task and WorkflowEngine.execute lines 79-87 *)
execute_workflow_begin ==
    /\ WfTaskAt("execute_workflow", "begin")
    /\ runStatus' = "running"
    /\ wfPc' = "run"
    /\ UNCHANGED <<jobVars, tqVars, exVars, procVars, apiVars, wfDef, runCurrent, runLog,
                   runCompletedAt, runError, suspBy, resumeFrom>>
    /\ UNCHANGED extVars

(* WorkflowEngine.execute lines 89-135: the traversal and the status it ends in *)
execute_workflow_run ==
    /\ WfTaskAt("execute_workflow", "run")
    /\ StoreOutcome(engine_execute(wfDef, runLog, runCurrent))
    /\ wfPc' = "return"
    /\ UNCHANGED <<jobVars, tqVars, exVars, procVars, apiVars, wfDef, resumeFrom>>
    /\ UNCHANGED extVars

(* resume_workflow_task and WorkflowEngine.resume lines 145-166: the status *)
(* found is not looked at                                                  *)
resume_workflow_begin ==
    /\ WfTaskAt("resume_workflow", "begin")
    /\ resumeFrom' = [node |-> tasks[wTask].arg, status |-> runStatus,
                      log |-> runLog, by |-> suspBy]
    /\ runStatus' = "running"
    /\ wfPc' = "run"
    /\ UNCHANGED <<jobVars, tqVars, exVars, procVars, apiVars, wfDef, runCurrent, runLog,
                   runCompletedAt, runError, suspBy>>
    /\ UNCHANGED extVars

(* WorkflowEngine.resume lines 168-203 *)
resume_workflow_run ==
    /\ WfTaskAt("resume_workflow", "run")
    /\ StoreOutcome(engine_resume(wfDef, runLog, runCurrent, tasks[wTask].arg))
    /\ wfPc' = "return"
    /\ UNCHANGED <<jobVars, tqVars, exVars, procVars, apiVars, wfDef, resumeFrom>>
    /\ UNCHANGED extVars

(* cancel_workflow_task *)
cancel_workflow_task ==
    /\ WfTaskAt("cancel_workflow", "begin")
    /\ wfPc' = "return"
    /\ IF runStatus \in RunTerminal
       THEN UNCHANGED <<runStatus, runCompletedAt>>
       ELSE runStatus' = "cancelled" /\ runCompletedAt' = TRUE
    /\ UNCHANGED <<jobVars, tqVars, exVars, procVars, apiVars, wfDef, runCurrent, runLog,
                   runError, suspBy, resumeFrom>>
    /\ UNCHANGED extVars

(***************************************************************************)
(* ToolNode of a run executed by execute_workflow_task                     *)
(***************************************************************************)
(* one tool node naming a registered tool *)
WfScan == [nodes |-> <<Node("A", "scan")>>, edges |-> <<>>]

(* _execute_node lines 219-229 and ToolNode.execute lines 72-138: the log   *)
(* entry is appended, the Job is stored with status queued and its         *)
(* execute_tool task is enqueued                                           *)
tool_node_create_job ==
    /\ WfTaskAt("execute_workflow", "run")
    /\ NodeTypeOf(wfDef, "A") = "scan"
    /\ FreeJobs # {}
    /\ LET j == NewJobId IN
        /\ jobStatus' = [jobStatus EXCEPT ![j] = "queued"]
        /\ jobTool' = [jobTool EXCEPT ![j] = "with_parser"]
        /\ enqueue("execute_tool", j)
        /\ tnJob' = j
    /\ tnElapsed' = 0
    /\ runLog' = Append(runLog, LogEntry("A", "running"))
    /\ runCurrent' = "A"
    /\ wfPc' = "poll"
    /\ UNCHANGED <<jobExit, jobCompletedAt, jobRetryOf, jobOutputs, tqRunning, wTask, exVars,
                   procVars, apiVars, wfDef, runStatus, runCompletedAt, runError, suspBy,
                   resumeFrom, tnResult>>
    /\ UNCHANGED <<lifeVars, schedVars, upsertVars, retryVars, parseVars, condVars, jsonlVars,
                   resolveVars, engVars, pubVars>>

(* ToolNode.execute lines 140-165: one round of the polling loop: sleep     *)
(* poll_interval, re-read the job, leave the loop on a terminal status or  *)
(* when elapsed has reached max_wait (MaxPolls rounds)                     *)
tool_node_poll ==
    /\ WfTaskAt("execute_workflow", "poll")
    /\ tnElapsed' = tnElapsed + 1
    /\ IF jobStatus[tnJob] \in JobTerminal \/ tnElapsed + 1 >= MaxPolls
       THEN /\ wfPc' = "finish"
            /\ tnResult' = IF jobStatus[tnJob] = "completed" THEN "ok" ELSE "fail"
       ELSE UNCHANGED <<wfPc, tnResult>>
    /\ UNCHANGED <<jobVars, tqVars, exVars, procVars, apiVars, wfRunVars, tnJob>>
    /\ UNCHANGED <<lifeVars, schedVars, upsertVars, retryVars, parseVars, condVars, jsonlVars,
                   resolveVars, engVars, pubVars>>

(* _execute_node lines 243-263 and execute lines 113-135: the entry is      *)
(* completed, and the run ends completed, or failed when the start node    *)
(* did not succeed                                                         *)
tool_node_finish ==
    /\ WfTaskAt("execute_workflow", "finish")
    /\ LET log == [runLog EXCEPT ![Len(runLog)] =
                      LogEntry("A", IF tnResult = "ok" THEN "completed" ELSE "failed")]
       IN  StoreOutcome(Outcome(EngineState({"A"}, log, "A"),
                                IF tnResult = "ok" THEN "completed" ELSE "failed", ""))
    /\ wfPc' = "return"
    /\ UNCHANGED <<jobVars, tqVars, exVars, procVars, apiVars, wfDef, resumeFrom>>
    /\ UNCHANGED extVars

(***************************************************************************)
(* Workflow engine, one step of _execute_node at a time                    *)
(***************************************************************************)
(* dict.get(key, default) *)
Get(d, key, default) == IF key \in DOMAIN d THEN d[key] ELSE default

(* edges carrying a label or a sourceHandle *)
LabelledEdge(source, target, label) == [source |-> source, target |-> target, label |-> label]
HandleEdge(source, target, handle) ==
    [source |-> source, target |-> target, sourceHandle |-> handle]

(* a condition node whose condition evaluate_condition finds true or false *)
Condition(id, holds) == [id |-> id, type |-> "condition", holds |-> holds]
(* a loop node of loop_type count, and one of loop_type items *)
CountLoop(id, iterations) ==
    [id |-> id, type |-> "loop", loop_type |-> "count", iterations |-> iterations]
ItemsLoop(id, items) == [id |-> id, type |-> "loop", loop_type |-> "items", items |-> items]
(* a tool node naming a registered tool whose parameters are a list:       *)
(* resolved_params.items() raises AttributeError                           *)
BadScan(id) == [id |-> id, type |-> "scan", parameters |-> ListValue(<<>>)]

(* P parallel with children X and Y, both followed by S *)
WfShared ==
    [nodes |-> <<Node("P", "parallel"), Node("X", "delay"), Node("Y", "delay"),
                 Node("S", "delay")>>,
     edges |-> <<Edge("P", "X"), Edge("P", "Y"), Edge("X", "S"), Edge("Y", "S")>>]
(* L loops twice over the body B -> C and is followed by D *)
WfLoopDeep ==
    [nodes |-> <<CountLoop("L", IntValue(2)), Node("B", "delay"), Node("C", "delay"),
                 Node("D", "delay")>>,
     edges |-> <<LabelledEdge("L", "B", "body"), Edge("B", "C"),
                 LabelledEdge("L", "D", "done")>>]
(* loops with nothing to iterate over: count 0, a count that is no number, *)
(* an empty list of items, items that resolve to no list                   *)
WfLoopNone(loop) ==
    [nodes |-> <<loop, Node("B", "delay"), Node("D", "delay")>>,
     edges |-> <<HandleEdge("L", "B", "body"), HandleEdge("L", "D", "done")>>]
EmptyLoops ==
    {CountLoop("L", IntValue(0)), CountLoop("L", StrValue("many")),
     ItemsLoop("L", ListValue(<<>>)), ItemsLoop("L", PyNull)}
(* a loop over two items whose body fails, and one whose body asks for     *)
(* approval                                                                *)
WfLoopFail ==
    [nodes |-> <<ItemsLoop("L", ListValue(<<IntValue(80), IntValue(443)>>)),
                 Node("B", "tool"), Node("D", "delay")>>,
     edges |-> <<Edge("L", "B"), LabelledEdge("L", "D", "complete")>>]
WfLoopManual ==
    [nodes |-> <<CountLoop("L", IntValue(1)), Node("B", "manual")>>,
     edges |-> <<LabelledEdge("L", "B", "body")>>]
(* a condition with an edge per branch and an edge without label *)
WfBranch(holds) ==
    [nodes |-> <<Condition("Q", holds), Node("T", "delay"), Node("F", "delay"),
                 Node("U", "delay")>>,
     edges |-> <<LabelledEdge("Q", "T", "true"), HandleEdge("Q", "F", "false"),
                 Edge("Q", "U")>>]
(* A followed by a tool node that fails and by one that raises *)
WfFailLater ==
    [nodes |-> <<Node("A", "delay"), Node("B", "tool"), BadScan("R")>>,
     edges |-> <<Edge("A", "B"), Edge("A", "R")>>]
(* a start node that raises *)
WfRaiseStart == [nodes |-> <<BadScan("R"), Node("B", "delay")>>, edges |-> <<Edge("R", "B")>>]
(* a parallel node with a manual child and a child of an unknown type *)
WfParManual ==
    [nodes |-> <<Node("P", "parallel"), Node("X", "manual"), Node("Y", "webhook")>>,
     edges |-> <<Edge("P", "X"), Edge("P", "Y")>>]
(* a parallel node without children *)
WfParNone == [nodes |-> <<Node("P", "parallel")>>, edges |-> <<>>]
(* a parallel node with a failing child *)
WfParFail ==
    [nodes |-> <<Node("P", "parallel"), Node("X", "delay"), Node("Y", "tool")>>,
     edges |-> <<Edge("P", "X"), Edge("P", "Y")>>]
(* a parallel node behind A, a manual node behind one of its two children  *)
WfParLater ==
    [nodes |-> <<Node("A", "delay"), Node("P", "parallel"), Node("X", "delay"),
                 Node("Y", "delay"), Node("M", "manual")>>,
     edges |-> <<Edge("A", "P"), Edge("P", "X"), Edge("P", "Y"), Edge("Y", "M")>>]
(* A followed by a node of a type without a class and by an edge to a node *)
(* that is not defined                                                     *)
WfUnknownLater ==
    [nodes |-> <<Node("A", "delay"), Node("W", "webhook")>>,
     edges |-> <<Edge("A", "W"), Edge("A", "Z")>>]
(* a start node of a type without a class *)
WfUnknownStart ==
    [nodes |-> <<Node("W", "webhook"), Node("B", "delay")>>, edges |-> <<Edge("W", "B")>>]
(* L loops twice over the body B, which is followed by the manual node M *)
WfLoopManualDeep ==
    [nodes |-> <<CountLoop("L", IntValue(2)), Node("B", "delay"), Node("M", "manual")>>,
     edges |-> <<LabelledEdge("L", "B", "body"), Edge("B", "M")>>]
(* L loops twice over the manual node M *)
WfLoopManualTwice ==
    [nodes |-> <<CountLoop("L", IntValue(2)), Node("M", "manual")>>,
     edges |-> <<LabelledEdge("L", "M", "body")>>]

EngineWorkflows ==
    {WfShared, WfLoopDeep, WfLoopFail, WfLoopManual, WfFailLater, WfRaiseStart, WfParManual,
     WfParNone, WfParFail, WfParLater, WfUnknownLater, WfUnknownStart, WfLoopManualDeep,
     WfLoopManualTwice, WfChain, WfFailStart, WfPlain}
        \cup {WfLoopNone(loop) : loop \in EmptyLoops}
        \cup {WfBranch(holds) : holds \in BOOLEAN}

(* create_node: the node types that have a class; "scan" is a tool node    *)
EngineNodeTypes == {"tool", "scan", "condition", "delay", "parallel", "loop", "manual"}

NodeOf(g, n) == g.nodes[NodeType(g, n)]
Targets(es) == [i \in 1..Len(es) |-> es[i].target]

(* edge.get("label", edge.get("sourceHandle", "")) *)
EdgeLabel(e) == IF "label" \in DOMAIN e THEN e.label ELSE Get(e, "sourceHandle", "")

(* _execute_loop_node lines 380-392: the number of loop items *)
LoopTotal(node) ==
    IF Get(node, "loop_type", "count") = "count"
    THEN LET iterations == Get(node, "iterations", IntValue(0))
         IN  IF iterations.t = "int" /\ iterations.v > 0 THEN iterations.v ELSE 0
    ELSE LET items == Get(node, "items", ListValue(<<>>))
         IN  IF items.t = "list" THEN Len(items.v) ELSE 0

(* lines 401-408: the targets of the edges marked body and of the edges    *)
(* with neither label nor sourceHandle                                     *)
BodyChildren(g, n) ==
    Targets(SelectSeq(adjacency(g, n), LAMBDA e :
        \/ Get(e, "label", "") = "body"
        \/ Get(e, "sourceHandle", "") = "body"
        \/ (Get(e, "label", "") = "" /\ Get(e, "sourceHandle", "") = "")))

(* lines 446-451: the targets of the edges labelled done or complete *)
PostChildren(g, n) ==
    Targets(SelectSeq(adjacency(g, n), LAMBDA e : EdgeLabel(e) \in {"done", "complete"}))

(* ConditionNode.execute: true_label or false_label *)
Branch(node) ==
    IF node.holds THEN Get(node, "true_label", "true") ELSE Get(node, "false_label", "false")

(* ToolNode.execute line 98 on parameters that are no mapping *)
Raises(node) == node.type = "scan" /\ Get(node, "parameters", DictValue(<<>>)).t # "dict"

(* NodeResult.success and data.approval_required; "blocked" is the result  *)
(* of a parallel node one of whose children asked for approval             *)
Success(r) == r.kind \in {"ok", "skipped", "approval"}
Approval(r) == r.kind \in {"approval", "blocked"}
NoResult == NodeResult("unset", "")

(* one activation of _execute_node (node "": of execute), and a coroutine  *)
Frame(n) ==
    [node |-> n, pc |-> "enter", i |-> 1, own |-> 0, res |-> NoResult, got |-> NoResult,
     kids |-> {}, it |-> 0, ok |-> TRUE, allok |-> TRUE]
Coroutine(n, pc) == [stack |-> <<[Frame(n) EXCEPT !.pc = pc]>>, ret |-> NoResult]

Top(c) == coros[c].stack[Len(coros[c].stack)]
At(c, pc) == coros[c].stack # <<>> /\ Top(c).pc = pc
WithTop(c, f) == [coros EXCEPT ![c].stack[Len(coros[c].stack)] = f]
(* await self._execute_node(n) from frame f, and the return of result r    *)
Call(c, f, n) ==
    [coros EXCEPT ![c].stack = Append([@ EXCEPT ![Len(@)] = f], Frame(n))]
Ret(c, r) ==
    LET k == Len(coros[c].stack) IN
    IF k = 1 THEN [coros EXCEPT ![c].stack = <<>>, ![c].ret = r]
    ELSE [coros EXCEPT ![c].stack = [SubSeq(@, 1, k - 1) EXCEPT ![k - 1].got = r]]

(* run.execution_log as it serialises *)
View(objs, refs) == [i \in 1..Len(refs) |-> objs[refs[i]]]

(* lines 243-252 and 301-306: log_entry is updated and stored as the last  *)
(* element of run.execution_log                                            *)
UpdateLogEntry(own, status) ==
    /\ logObjs' = [logObjs EXCEPT ![own].status = status]
    /\ logRefs' = IF logRefs # <<>> THEN [logRefs EXCEPT ![Len(logRefs)] = own] ELSE logRefs
    /\ runLog' = View(logObjs', logRefs')

OutsideNode ==
    UNCHANGED <<jobVars, tqVars, exVars, procVars, apiVars, wfPc, wfDef, suspBy, resumeFrom,
                lifeVars, schedVars, upsertVars, retryVars, parseVars, condVars, jsonlVars,
                resolveVars, toolVars, pubVars>>
OutsideEngine == OutsideNode /\ UNCHANGED <<ctxData, undefinedNodes>>

(* WorkflowContext.set and the deletion of keys *)
ContextSet(d, key, value) ==
    [k \in DOMAIN d \cup {key} |-> IF k = key THEN value ELSE d[k]]
ContextDel(d, keys) == [k \in DOMAIN d \ keys |-> d[k]]

(* WorkflowEngine.__init__ lines 49-55: the context of a run without input *)
(* parameters                                                              *)
RunContext ==
    [k \in {"project_id", "workflow_id", "workflow_run_id", "workflow_name"} |-> k]

(* WorkflowContext.set_node_result *)
set_node_result(d, node_id, result) == ContextSet(d, "node_" \o node_id \o "_result", result)

(* WorkflowContext.set_loop_context with a loop_id *)
set_loop_context(d, index, item, total, loop_id) ==
    LET d1 == ContextSet(d, "loop_index", index)
        d2 == ContextSet(d1, "loop_item", item)
        d3 == ContextSet(d2, "loop_total", total)
        d4 == ContextSet(d3, "loop_" \o loop_id \o "_index", index)
    IN  ContextSet(d4, "loop_" \o loop_id \o "_item", item)

(* WorkflowContext.clear_loop_context *)
clear_loop_context(d) == ContextDel(d, {"loop_index", "loop_item", "loop_total"})

(* _execute_loop_node lines 380-392: the item of an iteration, as text *)
LoopItem(node, it) ==
    IF Get(node, "loop_type", "count") = "count"
    THEN ToString(it)
    ELSE ToString(Get(node, "items", ListValue(<<>>)).v[it + 1].v)

(* WorkflowEngine.execute lines 79-87 *)
engine_execute_begin ==
    /\ runStatus = "pending"
    /\ coros = <<>>
    /\ runStatus' = "running"
    /\ coros' = <<Coroutine("", "start")>>
    /\ UNCHANGED <<runCurrent, runLog, runCompletedAt, runError, executed, logObjs, logRefs,
                   errorNode, visits, failures>>
    /\ OutsideEngine

(* execute lines 100-102 and 116-125: the next start node is executed, or  *)
(* the run is completed                                                    *)
engine_execute_next ==
    /\ coros # <<>>
    /\ At(1, "start")
    /\ LET ids == start_node_ids(wfDef)
           f == Top(1)
       IN  IF f.i > Len(ids)
           THEN /\ runStatus' = "completed"
                /\ runCompletedAt' = TRUE
                /\ coros' = Ret(1, NodeResult("ok", ""))
           ELSE /\ coros' = Call(1, [f EXCEPT !.pc = "start_ret"], ids[f.i])
                /\ UNCHANGED <<runStatus, runCompletedAt>>
    /\ UNCHANGED <<runCurrent, runLog, runError, executed, logObjs, logRefs, errorNode, visits,
                   failures>>
    /\ OutsideEngine

(* execute lines 104-114 and 127-135: the start node's result *)
engine_execute_checked ==
    /\ coros # <<>>
    /\ At(1, "start_ret")
    /\ LET f == Top(1) IN
       IF Approval(f.got)
       THEN /\ runStatus' = "waiting_approval"
            /\ runCurrent' = start_node_ids(wfDef)[f.i]
            /\ coros' = Ret(1, f.got)
            /\ UNCHANGED <<runCompletedAt, runError>>
       ELSE IF ~Success(f.got)
       THEN /\ runStatus' = "failed"
            /\ runError' = TRUE
            /\ runCompletedAt' = TRUE
            /\ coros' = Ret(1, f.got)
            /\ UNCHANGED runCurrent
       ELSE /\ coros' = WithTop(1, [f EXCEPT !.pc = "start", !.i = f.i + 1])
            /\ UNCHANGED <<runStatus, runCurrent, runCompletedAt, runError>>
    /\ UNCHANGED <<runLog, executed, logObjs, logRefs, errorNode, visits, failures>>
    /\ OutsideEngine

(* _execute_node lines 205-229 *)
node_enter(c) ==
    /\ At(c, "enter")
    /\ LET f == Top(c)
           n == f.node
       IN  IF n \in executed
           THEN /\ coros' = Ret(c, NodeResult("skipped", n))
                /\ UNCHANGED <<runCurrent, runLog, logObjs, logRefs, visits, undefinedNodes>>
           ELSE IF ~HasNode(wfDef, n) \/ NodeTypeOf(wfDef, n) \notin EngineNodeTypes
           THEN /\ coros' = Ret(c, NodeResult("none", n))
                /\ undefinedNodes' = undefinedNodes \cup {n}
                /\ UNCHANGED <<runCurrent, runLog, logObjs, logRefs, visits>>
           ELSE /\ logObjs' = Append(logObjs, LogEntry(n, "running"))
                /\ logRefs' = Append(logRefs, Len(logObjs) + 1)
                /\ runLog' = View(logObjs', logRefs')
                /\ runCurrent' = n
                /\ visits' = Append(visits, n)
                /\ coros' = WithTop(c, [f EXCEPT !.pc = "execute", !.own = Len(logObjs) + 1])
                /\ UNCHANGED undefinedNodes
    /\ UNCHANGED <<runStatus, runCompletedAt, runError, executed, errorNode, failures, ctxData>>
    /\ OutsideNode

(* lines 238-252: node.execute(db) of a node that is neither parallel nor  *)
(* loop, and the update of its log entry; lines 299-313 when it raises     *)
node_executed(c) ==
    /\ At(c, "execute")
    /\ LET f == Top(c)
           node == NodeOf(wfDef, f.node)
           result == node_execute(node.type, f.node)
       IN  /\ node.type \notin {"parallel", "loop"}
           /\ IF Raises(node)
              THEN /\ UpdateLogEntry(f.own, "failed")
                   /\ errorNode' = f.node
                   /\ failures' = failures \cup {f.node}
                   /\ coros' = Ret(c, NodeResult("fail", f.node))
              ELSE /\ UpdateLogEntry(f.own, IF Success(result) THEN "completed" ELSE "failed")
                   /\ failures' = IF Success(result) THEN failures ELSE failures \cup {f.node}
                   /\ coros' = WithTop(c, [f EXCEPT !.pc = "mark", !.res = result])
                   /\ UNCHANGED errorNode
    /\ UNCHANGED <<runStatus, runCurrent, runCompletedAt, runError, executed, visits>>
    /\ OutsideEngine

(* _execute_parallel_node lines 315-337: one task per child is handed to   *)
(* asyncio.gather (no more children than max_parallel)                     *)
parallel_gather(c) ==
    /\ At(c, "execute")
    /\ LET f == Top(c)
           node == NodeOf(wfDef, f.node)
           child_node_ids == Targets(adjacency(wfDef, f.node))
           ids == (Len(coros) + 1)..(Len(coros) + Len(child_node_ids))
       IN  /\ node.type = "parallel"
           /\ IF child_node_ids = <<>>
              THEN /\ UpdateLogEntry(f.own, "completed")
                   /\ coros' = WithTop(c, [f EXCEPT !.pc = "mark",
                                                    !.res = NodeResult("ok", f.node)])
              ELSE /\ coros' = WithTop(c, [f EXCEPT !.pc = "gather", !.kids = ids])
                          \o [k \in 1..Len(child_node_ids) |->
                                 Coroutine(child_node_ids[k], "enter")]
                   /\ UNCHANGED <<runLog, logObjs, logRefs>>
    /\ UNCHANGED <<runStatus, runCurrent, runCompletedAt, runError, executed, errorNode, visits,
                   failures>>
    /\ OutsideEngine

(* an aggregation that looks at the children's success only *)
parallel_result_by_success(results, n) ==
    NodeResult(IF \A r \in results : Success(r) THEN "ok" ELSE "fail", n)

(* lines 339-367: success = all_success and not approval_required, and     *)
(* data.approval_required                                                  *)
parallel_result(results, n) ==
    LET approval_required == \E r \in results : Approval(r)
        all_success == \A r \in results : Success(r)
    IN  NodeResult(IF approval_required THEN "blocked"
                   ELSE IF all_success THEN "ok" ELSE "fail", n)

(* lines 339-367 and 243-252: every child task has finished *)
parallel_gathered(c) ==
    /\ At(c, "gather")
    /\ LET f == Top(c)
           results == {coros[k].ret : k \in f.kids}
           result == parallel_result(results, f.node)
       IN  /\ \A k \in f.kids : coros[k].stack = <<>>
           /\ executed' = executed \cup {f.node}
           /\ UpdateLogEntry(f.own, IF Success(result) THEN "completed" ELSE "failed")
           /\ coros' = WithTop(c, [f EXCEPT !.pc = "mark", !.res = result])
    /\ UNCHANGED <<runStatus, runCurrent, runCompletedAt, runError, errorNode, visits, failures>>
    /\ OutsideEngine

(* _execute_loop_node lines 369-399: the loop items; with none the node    *)
(* is marked executed and succeeds                                         *)
loop_begin(c) ==
    /\ At(c, "execute")
    /\ LET f == Top(c)
           node == NodeOf(wfDef, f.node)
       IN  /\ node.type = "loop"
           /\ IF LoopTotal(node) = 0
              THEN /\ executed' = executed \cup {f.node}
                   /\ UpdateLogEntry(f.own, "completed")
                   /\ coros' = WithTop(c, [f EXCEPT !.pc = "mark",
                                                    !.res = NodeResult("ok", f.node)])
              ELSE /\ coros' = WithTop(c, [f EXCEPT !.pc = "iterate", !.it = 0])
                   /\ UNCHANGED <<executed, runLog, logObjs, logRefs>>
    /\ UNCHANGED <<runStatus, runCurrent, runCompletedAt, runError, errorNode, visits, failures>>
    /\ OutsideEngine

(* lines 413-422: an iteration starts: its direct children are discarded   *)
(* from the executed set                                                   *)
loop_iterate(c) ==
    /\ At(c, "iterate")
    /\ LET f == Top(c)
           child_node_ids == BodyChildren(wfDef, f.node)
           node == NodeOf(wfDef, f.node)
       IN  /\ ctxData' = set_loop_context(ctxData, ToString(f.it), LoopItem(node, f.it),
                                          ToString(LoopTotal(node)), f.node)
           /\ executed' = executed \ {child_node_ids[k] : k \in 1..Len(child_node_ids)}
           /\ coros' = WithTop(c, [f EXCEPT !.pc = "body", !.i = 1, !.ok = TRUE])
    /\ UNCHANGED <<runStatus, runCurrent, runLog, runCompletedAt, runError, logObjs, logRefs,
                   errorNode, visits, failures, undefinedNodes>>
    /\ OutsideNode

(* the frame of a loop whose iterations are over: lines 444-445 *)
LoopDone(f, ok) == [f EXCEPT !.pc = "post", !.i = 1, !.ok = ok, !.allok = f.allok /\ ok]

(* lines 423-425 and 440-442: the next child of the iteration is executed; *)
(* after the last one the iteration's success is recorded and the next     *)
(* iteration, if any, follows                                              *)
loop_body(c) ==
    /\ At(c, "body")
    /\ LET f == Top(c)
           node == NodeOf(wfDef, f.node)
           child_node_ids == BodyChildren(wfDef, f.node)
           stop == (~f.ok /\ ~Get(node, "continue_on_error", FALSE))
                       \/ f.it + 1 >= LoopTotal(node)
       IN  IF f.i <= Len(child_node_ids)
           THEN /\ coros' = Call(c, [f EXCEPT !.pc = "body_ret"], child_node_ids[f.i])
                /\ UNCHANGED <<executed, ctxData>>
           ELSE IF stop
           THEN /\ coros' = WithTop(c, LoopDone(f, f.ok))
                /\ ctxData' = clear_loop_context(ctxData)
                /\ executed' = executed \cup {f.node}
           ELSE /\ coros' = WithTop(c, [f EXCEPT !.pc = "iterate", !.it = f.it + 1,
                                                 !.allok = f.allok /\ f.ok])
                /\ UNCHANGED <<executed, ctxData>>
    /\ UNCHANGED <<runStatus, runCurrent, runLog, runCompletedAt, runError, logObjs, logRefs,
                   errorNode, visits, failures, undefinedNodes>>
    /\ OutsideNode

(* lines 427-428: a child of the iteration requires approval; the variant  *)
(* that never notices it comes first                                       *)
approval_in_loop_ignored(got) == FALSE
approval_in_loop(got) == got.kind # "none" /\ Approval(got)

(* lines 425-438: the result of a child of the iteration *)
loop_body_returned(c) ==
    /\ At(c, "body_ret")
    /\ LET f == Top(c)
           node == NodeOf(wfDef, f.node)
       IN  IF approval_in_loop(f.got)
           THEN /\ UpdateLogEntry(f.own, "failed")
                /\ ctxData' = clear_loop_context(ctxData)
                /\ coros' = WithTop(c, [f EXCEPT !.pc = "mark",
                                                 !.res = NodeResult("fail", f.node)])
                /\ UNCHANGED executed
           ELSE IF f.got.kind # "none" /\ ~Success(f.got)
                    /\ ~Get(node, "continue_on_error", FALSE)
           THEN /\ coros' = WithTop(c, LoopDone(f, FALSE))
                /\ ctxData' = clear_loop_context(ctxData)
                /\ executed' = executed \cup {f.node}
                /\ UNCHANGED <<runLog, logObjs, logRefs>>
           ELSE /\ coros' = WithTop(c, [f EXCEPT !.pc = "body", !.i = f.i + 1,
                                        !.ok = f.ok /\ (f.got.kind = "none" \/ Success(f.got))])
                /\ UNCHANGED <<executed, runLog, logObjs, logRefs, ctxData>>
    /\ UNCHANGED <<runStatus, runCurrent, runCompletedAt, runError, errorNode, visits, failures,
                   undefinedNodes>>
    /\ OutsideNode

(* lines 446-460 and 243-252: the post-loop successors are executed one    *)
(* after the other, then the loop's result is returned and logged          *)
loop_post(c) ==
    /\ At(c, "post")
    /\ LET f == Top(c)
           targets == PostChildren(wfDef, f.node)
       IN  IF f.i <= Len(targets)
           THEN /\ coros' = Call(c, [f EXCEPT !.pc = "post_ret"], targets[f.i])
                /\ UNCHANGED <<runLog, logObjs, logRefs>>
           ELSE /\ UpdateLogEntry(f.own, IF f.allok THEN "completed" ELSE "failed")
                /\ coros' = WithTop(c, [f EXCEPT !.pc = "mark",
                               !.res = NodeResult(IF f.allok THEN "ok" ELSE "fail", f.node)])
    /\ UNCHANGED <<runStatus, runCurrent, runCompletedAt, runError, executed, errorNode, visits,
                   failures>>
    /\ OutsideEngine

(* line 451: the result of a post-loop successor is not looked at *)
loop_post_returned(c) ==
    /\ At(c, "post_ret")
    /\ coros' = WithTop(c, [Top(c) EXCEPT !.pc = "post", !.i = Top(c).i + 1])
    /\ UNCHANGED <<runStatus, runCurrent, runLog, runCompletedAt, runError, executed, logObjs,
                   logRefs, errorNode, visits, failures>>
    /\ OutsideEngine

(* lines 254-270: the node is added to the executed set unless it waits    *)
(* for approval; a failure or an approval requirement is returned          *)
node_mark(c) ==
    /\ At(c, "mark")
    /\ LET f == Top(c) IN
        /\ ctxData' = set_node_result(ctxData, f.node, f.res.kind)
        /\ executed' = IF Approval(f.res) THEN executed ELSE executed \cup {f.node}
        /\ coros' = IF ~Success(f.res) \/ Approval(f.res)
                    THEN Ret(c, f.res)
                    ELSE WithTop(c, [f EXCEPT !.pc = "succ", !.i = 1])
    /\ UNCHANGED <<runStatus, runCurrent, runLog, runCompletedAt, runError, logObjs, logRefs,
                   errorNode, visits, failures, undefinedNodes>>
    /\ OutsideNode

(* lines 272-297: the next outgoing edge: after a condition node an edge   *)
(* is followed when its label is the branch or when it has no label; after *)
(* any other node every edge is followed                                   *)
node_successors(c) ==
    /\ At(c, "succ")
    /\ LET f == Top(c)
           node == NodeOf(wfDef, f.node)
           es == adjacency(wfDef, f.node)
       IN  coros' =
             IF f.i > Len(es) THEN Ret(c, f.res)
             ELSE IF node.type = "condition"
                      /\ ~(EdgeLabel(es[f.i]) = Branch(node) \/ EdgeLabel(es[f.i]) = "")
             THEN WithTop(c, [f EXCEPT !.i = f.i + 1])
             ELSE Call(c, [f EXCEPT !.pc = "succ_ret"], es[f.i].target)
    /\ UNCHANGED <<runStatus, runCurrent, runLog, runCompletedAt, runError, executed, logObjs,
                   logRefs, errorNode, visits, failures>>
    /\ OutsideEngine

(* lines 280-284 and 293-295: an approval requirement of the child is      *)
(* returned, any other result is dropped                                   *)
node_successor_returned(c) ==
    /\ At(c, "succ_ret")
    /\ LET f == Top(c) IN
       coros' = IF Approval(f.got) THEN Ret(c, f.got)
                ELSE WithTop(c, [f EXCEPT !.pc = "succ", !.i = f.i + 1])
    /\ UNCHANGED <<runStatus, runCurrent, runLog, runCompletedAt, runError, executed, logObjs,
                   logRefs, errorNode, visits, failures>>
    /\ OutsideEngine

(***************************************************************************)
(* Upsert layer (BaseParser.save_results) and its callers                  *)
(***************************************************************************)
Sessions == 1..MaxSessions
UpsertJobs == {"job-1", "job-2"}
ProjectId == "project-1"

AssetKey(type, value) == [type |-> type, value |-> value]
HostA == AssetKey("host", "10.0.0.1")
SiteB == AssetKey("domain", "example.com")
NoAsset == AssetKey("", "")
AssetKeys == {HostA, SiteB}
AssetValues == {k.value : k \in AssetKeys}

(* ParsedAsset; a metadata dict is the set of its <<key, value>> items, a   *)
(* tags list is the set of its elements                                    *)
ParsedAsset(key, tags, risk_score, metadata) ==
    [key |-> key, tags |-> tags, risk_score |-> risk_score, metadata |-> metadata]

PaWeb == ParsedAsset(HostA, {"web"}, 2, {<<"os", "linux">>})
PaProd == ParsedAsset(HostA, {"prod"}, 5, {<<"os", "bsd">>, <<"owner", "ops">>})
PaBare == ParsedAsset(HostA, {}, 0, {})
PaSite == ParsedAsset(SiteB, {"web"}, 1, {<<"owner", "dev">>})

ParsedVulnerability(title, template_id, asset) ==
    [title |-> title, template_id |-> template_id, asset |-> asset]
ParsedCredential(username, service, port, asset) ==
    [username |-> username, service |-> service, port |-> port, asset |-> asset]
ParsedResult(result_type, parsed_data, asset) ==
    [result_type |-> result_type, parsed_data |-> parsed_data, asset |-> asset]

(* ParseOutput values a parser returns for three raw outputs *)
OutScan ==
    [name |-> "scan",
     assets |-> <<PaWeb>>,
     vulnerabilities |-> <<ParsedVulnerability("xss", "t-1", HostA)>>,
     credentials |-> <<>>,
     results |-> <<ParsedResult("port", "80/tcp", HostA)>>]
OutRescan ==
    [name |-> "rescan",
     assets |-> <<PaProd, PaSite>>,
     vulnerabilities |-> <<ParsedVulnerability("xss", "t-1", HostA),
                           ParsedVulnerability("sqli", "", NoAsset)>>,
     credentials |-> <<ParsedCredential("admin", "ssh", "22", HostA)>>,
     results |-> <<>>]
OutBare ==
    [name |-> "bare",
     assets |-> <<PaBare>>,
     vulnerabilities |-> <<>>,
     credentials |-> <<ParsedCredential("admin", "ssh", "22", SiteB)>>,
     results |-> <<ParsedResult("banner", "ssh-2.0", SiteB)>>]
ParseOutputs == {OutScan, OutRescan, OutBare}

(* {**a, **b}: the items of b, and those of a whose key b does not hold *)
DictMerge(a, b) == b \cup {i \in a : \A j \in b : j[1] # i[1]}

(* a merge that keeps the risk score supplied last *)
LatestScore(a, b) == b

Max(a, b) == IF a >= b THEN a ELSE b

(* generate_fingerprint: the arguments that are not None, as strings; the   *)
(* digest is taken to be free of collisions                                *)
IdStr(id) == IF id = 0 THEN "" ELSE ToString(id)
PyNone == "None"
NotNone(arg) == arg # PyNone
generate_fingerprint(args) == SelectSeq(args, NotNone)

Stats(ac, au, vc, vu, cc, cu, rc) ==
    [assets_created |-> ac, assets_updated |-> au,
     vulnerabilities_created |-> vc, vulnerabilities_updated |-> vu,
     credentials_created |-> cc, credentials_updated |-> cu, results_created |-> rc]

(* the rows the select of _upsert_asset / _find_asset returns *)
AssetMatches(key) == {i \in 1..Len(assetRows) : assetRows[i].key = key}

NoCache == [v \in AssetValues |-> 0]

UpOut(s) == upRun[s].out
UpParsed(s) == UpOut(s).assets[upIdx[s]]

(* the asset a vulnerability, credential or result is linked to: the       *)
(* asset_cache entry of its asset_value, else the row _find_asset returns  *)
AssetIdOf(s, ref) ==
    IF ref = NoAsset THEN 0
    ELSE IF upCache[s][ref.value] # 0 THEN upCache[s][ref.value]
    ELSE IF AssetMatches(ref) = {} THEN 0
    ELSE CHOOSE i \in AssetMatches(ref) : TRUE

(* scalar_one_or_none() raises MultipleResultsFound *)
FindRaises(s, ref) ==
    /\ ref # NoAsset
    /\ upCache[s][ref.value] = 0
    /\ Cardinality(AssetMatches(ref)) > 1

VulnFingerprint(s, v) ==
    generate_fingerprint(<<ProjectId, v.title, v.template_id, IdStr(AssetIdOf(s, v.asset))>>)
CredFingerprint(s, c) ==
    generate_fingerprint(<<ProjectId, c.username, c.service, c.port,
                           IdStr(AssetIdOf(s, c.asset))>>)
ResultFingerprint(s, r) ==
    generate_fingerprint(<<upRun[s].job, r.result_type, r.parsed_data>>)

(* select by fingerprint, then update the row found or insert a new one,   *)
(* for the fingerprints fps[i..] in turn                                   *)
RECURSIVE UpsertByFingerprint(_, _, _)
UpsertByFingerprint(rows, fps, i) ==
    IF i > Len(fps) THEN [rows |-> rows, created |-> 0]
    ELSE LET rest == UpsertByFingerprint(rows \cup {fps[i]}, fps, i + 1)
         IN  [rows |-> rest.rows,
              created |-> rest.created + (IF fps[i] \in rows THEN 0 ELSE 1)]

(* import_results / parse task: save_results is called for a job and the    *)
(* ParseOutput of its raw output                                           *)
save_results_begin(s, job, out) ==
    /\ upPc[s] = "idle"
    /\ upStarted < MaxRuns
    /\ upStarted' = upStarted + 1
    /\ upRun' = [upRun EXCEPT ![s] = [job |-> job, out |-> out]]
    /\ upIdx' = [upIdx EXCEPT ![s] = 1]
    /\ upCache' = [upCache EXCEPT ![s] = NoCache]
    /\ upStats' = [upStats EXCEPT ![s] = Stats(0, 0, 0, 0, 0, 0, 0)]
    /\ upPc' = [upPc EXCEPT ![s] = IF out.assets = <<>> THEN "rest" ELSE "asset_select"]
    /\ UNCHANGED <<assetRows, vulnRows, credRows, resultRows, upFound, upRow, upserted, savedRuns, lastRun>>
    /\ UNCHANGED <<jobVars, tqVars, exVars, procVars, apiVars, wfVars, lifeVars, schedVars, retryVars, parseVars,
                   condVars, moreVars>>

(* _upsert_asset up to its flush: the select by (project, type, value)      *)
(* returns, and the row found is merged in memory or a new Asset is added  *)
upsert_asset_select(s) ==
    /\ upPc[s] = "asset_select"
    /\ Cardinality(AssetMatches(UpParsed(s).key)) <= 1
    /\ LET pa == UpParsed(s)
           m == AssetMatches(pa.key)
           existing == CHOOSE i \in m : TRUE
       IN  IF m # {}
           THEN /\ upFound' = [upFound EXCEPT ![s] = existing]
                /\ upRow' = [upRow EXCEPT ![s] =
                       [assetRows[existing] EXCEPT
                           !.metadata = DictMerge(@, pa.metadata),
                           !.tags = @ \cup pa.tags,
                           !.risk_score = Max(@, pa.risk_score)]]
           ELSE /\ upFound' = [upFound EXCEPT ![s] = 0]
                /\ upRow' = [upRow EXCEPT ![s] =
                       [key |-> pa.key, metadata |-> pa.metadata, tags |-> pa.tags,
                        risk_score |-> pa.risk_score, status |-> "active",
                        discovered_by |-> upRun[s].job]]
    /\ upPc' = [upPc EXCEPT ![s] = "asset_flush"]
    /\ UNCHANGED <<assetRows, vulnRows, credRows, resultRows, upRun, upIdx, upCache, upStats,
                   upStarted, upserted, savedRuns, lastRun>>
    /\ UNCHANGED <<jobVars, tqVars, exVars, procVars, apiVars, wfVars, lifeVars, schedVars, retryVars, parseVars,
                   condVars, moreVars>>

(* _upsert_asset: db.flush() writes the changed columns of the row found,   *)
(* or inserts the new row; save_results counts it and caches it by value   *)
upsert_asset_flush(s) ==
    /\ upPc[s] = "asset_flush"
    /\ LET pa == UpParsed(s)
           id == IF upFound[s] # 0 THEN upFound[s] ELSE Len(assetRows) + 1
       IN  /\ assetRows' =
                 IF upFound[s] # 0
                 THEN [assetRows EXCEPT ![id].metadata = upRow[s].metadata,
                                        ![id].tags = upRow[s].tags,
                                        ![id].risk_score = upRow[s].risk_score]
                 ELSE Append(assetRows, upRow[s])
           /\ upCache' = [upCache EXCEPT ![s][pa.key.value] = id]
           /\ upStats' = [upStats EXCEPT
                             ![s].assets_created = @ + (IF upFound[s] = 0 THEN 1 ELSE 0),
                             ![s].assets_updated = @ + (IF upFound[s] = 0 THEN 0 ELSE 1)]
           /\ upserted' = Append(upserted, pa)
    /\ upIdx' = [upIdx EXCEPT ![s] = @ + 1]
    /\ upPc' = [upPc EXCEPT ![s] =
                   IF upIdx[s] < Len(UpOut(s).assets) THEN "asset_select" ELSE "rest"]
    /\ UNCHANGED <<vulnRows, credRows, resultRows, upRun, upFound, upRow, upStarted, savedRuns, lastRun>>
    /\ UNCHANGED <<jobVars, tqVars, exVars, procVars, apiVars, wfVars, lifeVars, schedVars, retryVars, parseVars,
                   condVars, moreVars>>

NoRow == [key |-> NoAsset, metadata |-> {}, tags |-> {}, risk_score |-> 0,
          status |-> "active", discovered_by |-> "job-1"]
NoUpsertRun == [job |-> "job-1", out |-> OutScan]

(* save_results returns or raises: its locals are gone *)
Return(s) ==
    /\ upPc' = [upPc EXCEPT ![s] = "idle"]
    /\ upRun' = [upRun EXCEPT ![s] = NoUpsertRun]
    /\ upIdx' = [upIdx EXCEPT ![s] = 1]
    /\ upFound' = [upFound EXCEPT ![s] = 0]
    /\ upRow' = [upRow EXCEPT ![s] = NoRow]
    /\ upCache' = [upCache EXCEPT ![s] = NoCache]
    /\ upStats' = [upStats EXCEPT ![s] = Stats(0, 0, 0, 0, 0, 0, 0)]

SeqRange(q) == {q[i] : i \in 1..Len(q)}

(* the assets the vulnerabilities, credentials and results of an output    *)
(* are linked to                                                           *)
LinkedAssets(out) ==
    {x.asset : x \in SeqRange(out.vulnerabilities) \cup SeqRange(out.credentials)
                         \cup SeqRange(out.results)}

(* save_results after the assets: vulnerabilities and credentials are       *)
(* upserted by fingerprint, every result is inserted, commit, stats        *)
save_results_rest(s) ==
    /\ upPc[s] = "rest"
    /\ \A ref \in LinkedAssets(UpOut(s)) : ~FindRaises(s, ref)
    /\ LET out == UpOut(s)
           vfps == [i \in 1..Len(out.vulnerabilities) |->
                       VulnFingerprint(s, out.vulnerabilities[i])]
           cfps == [i \in 1..Len(out.credentials) |->
                       CredFingerprint(s, out.credentials[i])]
           rfps == [i \in 1..Len(out.results) |-> ResultFingerprint(s, out.results[i])]
           v == UpsertByFingerprint(vulnRows, vfps, 1)
           c == UpsertByFingerprint(credRows, cfps, 1)
           stats == [upStats[s] EXCEPT
                        !.vulnerabilities_created = v.created,
                        !.vulnerabilities_updated = Len(vfps) - v.created,
                        !.credentials_created = c.created,
                        !.credentials_updated = Len(cfps) - c.created,
                        !.results_created = Len(rfps)]
       IN  /\ vulnRows' = v.rows
           /\ credRows' = c.rows
           /\ resultRows' = resultRows \o rfps
           /\ savedRuns' = savedRuns \cup {<<upRun[s].job, out.name>>}
           /\ lastRun' = [job |-> upRun[s].job, out |-> out.name, stats |-> stats,
                          repeated |-> <<upRun[s].job, out.name>> \in savedRuns]
    /\ Return(s)
    /\ UNCHANGED <<assetRows, upStarted, upserted>>
    /\ UNCHANGED <<jobVars, tqVars, exVars, procVars, apiVars, wfVars, lifeVars, schedVars, retryVars, parseVars,
                   condVars, moreVars>>

(* a select finds two rows for one (project, type, value): scalar_one_or_   *)
(* none() raises and save_results ends without stats. What was flushed     *)
(* before stays: on the shared connection it is committed by the commit of *)
(* any other request                                                       *)
save_results_raises(s) ==
    /\ \/ upPc[s] = "asset_select" /\ Cardinality(AssetMatches(UpParsed(s).key)) > 1
       \/ upPc[s] = "rest" /\ \E ref \in LinkedAssets(UpOut(s)) : FindRaises(s, ref)
    /\ Return(s)
    /\ UNCHANGED <<assetRows, vulnRows, credRows, resultRows, upStarted, upserted, savedRuns,
                   lastRun>>
    /\ UNCHANGED <<jobVars, tqVars, exVars, procVars, apiVars, wfVars, lifeVars, schedVars, retryVars, parseVars,
                   condVars, moreVars>>

AssetStatuses == {"active", "inactive", "archived"}

(* update_asset: a user sets the status of an asset *)
update_asset(id, status) ==
    /\ id \in 1..Len(assetRows)
    /\ assetRows[id].status # status
    /\ assetRows' = [assetRows EXCEPT ![id].status = status]
    /\ UNCHANGED <<vulnRows, credRows, resultRows, upPc, upRun, upIdx, upFound, upRow, upCache,
                   upStats, upStarted, upserted, savedRuns, lastRun>>
    /\ UNCHANGED <<jobVars, tqVars, exVars, procVars, apiVars, wfVars, lifeVars, schedVars, retryVars, parseVars,
                   condVars, moreVars>>

(* an empty project, no request in save_results *)
InitUpsert ==
    /\ assetRows = <<>>
    /\ vulnRows = {}
    /\ credRows = {}
    /\ resultRows = <<>>
    /\ upPc = [s \in Sessions |-> "idle"]
    /\ upRun = [s \in Sessions |-> NoUpsertRun]
    /\ upIdx = [s \in Sessions |-> 1]
    /\ upFound = [s \in Sessions |-> 0]
    /\ upRow = [s \in Sessions |-> NoRow]
    /\ upCache = [s \in Sessions |-> NoCache]
    /\ upStats = [s \in Sessions |-> Stats(0, 0, 0, 0, 0, 0, 0)]
    /\ upStarted = 0
    /\ upserted = <<>>
    /\ savedRuns = {}
    /\ lastRun = [job |-> "", out |-> "", stats |-> Stats(0, 0, 0, 0, 0, 0, 0),
                  repeated |-> FALSE]

NoJobRows ==
    /\ jobStatus = [j \in JobIds |-> "absent"]
    /\ jobTool = [j \in JobIds |-> "no_parser"]
    /\ jobExit = [j \in JobIds |-> NoExit]
    /\ jobCompletedAt = [j \in JobIds |-> FALSE]

(* The database may hold a job of an earlier process lifetime whose tool   *)
(* is no longer registered                                                 *)
StaleJobRow ==
    /\ jobStatus = [j \in JobIds |-> IF j = 1 THEN "failed" ELSE "absent"]
    /\ jobTool = [j \in JobIds |-> IF j = 1 THEN "unknown" ELSE "no_parser"]
    /\ jobExit = [j \in JobIds |-> IF j = 1 THEN 1 ELSE NoExit]
    /\ jobCompletedAt = [j \in JobIds |-> j = 1]

(* a new process: the in-memory queue is empty, nothing executes *)
InitPipeline ==
    /\ jobRetryOf = [j \in JobIds |-> 0]
    /\ jobOutputs = [j \in JobIds |-> <<>>]
    /\ tqRunning = FALSE
    /\ tasks = <<>>
    /\ queue = <<>>
    /\ wTask = 0
    /\ exPc = "idle"
    /\ exJob = 1
    /\ exFound = "absent"
    /\ sequence = 0
    /\ rdPc = [s \in Streams |-> "eof"]
    /\ rdSeq = [s \in Streams |-> 0]
    /\ procState = "none"
    /\ procExit = NoExit
    /\ procAvail = [s \in Streams |-> 0]
    /\ procEmitted = [s \in Streams |-> 0]
    /\ spawned = {}
    /\ reqCancel = 0
    /\ cancelJob = 1
    /\ cancelAsync = "none"

NoResume == [node |-> "", status |-> "none", log |-> <<>>, by |-> ""]

(* no workflow run exists *)
InitRun ==
    /\ runStatus = "none"
    /\ runCurrent = ""
    /\ runLog = <<>>
    /\ runCompletedAt = FALSE
    /\ runError = FALSE
    /\ wfPc = "idle"
    /\ suspBy = ""
    /\ resumeFrom = NoResume

(* TaskQueue.__init__: nothing runs, nothing is scheduled *)
InitQueue ==
    /\ tpShutdown = FALSE
    /\ workerLoops = 0
    /\ schedLoops = 0
    /\ now = 0
    /\ schedAwake = FALSE
    /\ schedInterval = 0
    /\ schedLast = NoRun
    /\ schedTimes = <<>>

InitFields ==
    /\ jobFields = [j \in JobIds |-> DefaultFields]
    /\ retryReply = "none"

InitParse ==
    /\ parseReturn = [j \in JobIds |-> "none"]
    /\ parsedEvents = {}

InitCond ==
    /\ condData = NoData
    /\ condLeft = <<Part("status")>>
    /\ condOp = "=="
    /\ condRight = Token("bare", StrValue("completed"))
    /\ condResult = "none"

InitJsonl ==
    /\ jlLines = <<>>
    /\ jlOut = [p \in JsonlParsers |-> NoOutput]

InitResolved ==
    /\ rvData = NoData
    /\ rvInput = PyNull
    /\ rvOutput = PyNull
    /\ rvDone = FALSE

InitToolNode ==
    /\ tnJob = 0
    /\ tnElapsed = 0
    /\ tnResult = "none"

InitEngine ==
    /\ coros = <<>>
    /\ executed = {}
    /\ logObjs = <<>>
    /\ logRefs = <<>>
    /\ errorNode = ""
    /\ visits = <<>>
    /\ failures = {}
    /\ ctxData = RunContext
    /\ undefinedNodes = {}

InitPublished ==
    /\ jobError = [j \in JobIds |-> ""]
    /\ events = [j \in JobIds |-> <<>>]
    /\ cancelledAlive = {}

InitMore == InitJsonl /\ InitResolved /\ InitToolNode /\ InitEngine /\ InitPublished

InitExt == InitQueue /\ InitUpsert /\ InitFields /\ InitParse /\ InitCond /\ InitMore

InitJobs == (NoJobRows \/ StaleJobRow) /\ InitPipeline /\ wfDef = WfPlain /\ InitRun /\ InitExt

InitWorkflows == NoJobRows /\ InitPipeline /\ wfDef \in Workflows /\ InitRun /\ InitExt

(* the task queue, the executor and the runner driving one job at a time *)
NextExecutor ==
    \/ TQStart
    \/ WorkerGet
    \/ WorkerDone
    \/ ExStart
    \/ ExSpawn
    \/ ExSpawnFails
    \/ \E code \in {0, 1} : ProcExit(code)
    \/ \E s \in Streams : ReaderEOF(s)
    \/ ExRunnerReturned
    \/ ExEnqueueParse
    \/ parse_job_results
    \/ RunnerTimeout
    \/ RunnerKilled
    \/ ExTimeout
    \/ ExError

(* the job lifecycle: create, cancel and retry requests against the        *)
(* executor, for tools that print nothing                                  *)
NextJobs ==
    \/ NextExecutor
    \/ \E tool \in ToolNames : create_job(tool)
    \/ \E j \in JobIds : job_action_cancel(j)
    \/ job_action_commit
    \/ cancel_job_select
    \/ cancel_job_commit
    \/ \E j \in JobIds : job_action_retry(j)

SpecJobs == InitJobs /\ [][NextJobs]_vars

(* output streaming: one job is created and run to its end while the tool *)
(* writes to both pipes                                                    *)
NextOutput ==
    \/ NextExecutor
    \/ \E tool \in ToolNames : tasks = <<>> /\ create_job(tool)
    \/ \E s \in Streams : ProcEmit(s)
    \/ \E s \in Streams : ReaderLine(s)
    \/ \E s \in Streams : ReaderFlushed(s)
    \/ \E s \in Streams : ReaderFlushFails(s)

SpecOutput == InitJobs /\ [][NextOutput]_vars

(* one run of a workflow: the run, approve and cancel requests and the     *)
(* three workflow tasks on the task queue                                  *)
NextWorkflows ==
    \/ TQStart
    \/ WorkerGet
    \/ WorkerDone
    \/ run_workflow
    \/ \E n \in NodeIds(wfDef) : approve_workflow_step(n)
    \/ cancel_workflow_run
    \/ execute_workflow_begin
    \/ execute_workflow_run
    \/ resume_workflow_begin
    \/ resume_workflow_run
    \/ cancel_workflow_task

SpecWorkflows == InitWorkflows /\ [][NextWorkflows]_vars

(* the worker loop on its own: clients enqueue plain callables; the loop   *)
(* takes the next task whenever it is free, and every callable returns or *)
(* raises                                                                  *)
NextWorker ==
    \/ TQStart
    \/ WorkerGet
    \/ WorkerDone
    \/ WorkerTaskFailed
    \/ \E func \in PlainFuncs \ {"scheduled"} : enqueue_task(func)

InitQueueOnly == NoJobRows /\ InitPipeline /\ wfDef = WfPlain /\ InitRun /\ InitExt

SpecWorker ==
    /\ InitQueueOnly
    /\ [][NextWorker]_vars
    /\ WF_vars(TQStart)
    /\ WF_vars(WorkerGet)
    /\ WF_vars(WorkerDone)
    /\ WF_vars(WorkerTaskFailed)

(* the worker and the scheduler: one callable is scheduled, time passes *)
NextSched ==
    \/ NextWorker
    \/ \E i \in 1..MaxInterval : schedule(i)
    \/ scheduler
    \/ Tick

SpecSched == InitQueueOnly /\ [][NextSched]_vars

(* the worker and its clients with the queue stopped and started again at  *)
(* any time                                                                *)
NextQueue ==
    \/ NextWorker
    \/ TQStop

SpecQueue == InitQueueOnly /\ [][NextQueue]_vars

(* the scheduler and the worker running the scheduled callable, with the   *)
(* queue stopped and started again at any time                             *)
NextSchedStop ==
    \/ TQStart
    \/ TQStop
    \/ WorkerGet
    \/ WorkerDone
    \/ \E i \in 1..MaxInterval : schedule(i)
    \/ scheduler
    \/ Tick

SpecSchedStop == InitQueueOnly /\ [][NextSchedStop]_vars

(* the jobs API on a database that holds one job of any status: create,    *)
(* cancel and retry requests; the queue is not started                     *)
AnyJobRow ==
    \E status \in JobStatuses : \E tool \in ToolNames : \E fields \in JobFieldChoices :
        /\ jobStatus = [j \in JobIds |-> IF j = 1 THEN status ELSE "absent"]
        /\ jobTool = [j \in JobIds |-> IF j = 1 THEN tool ELSE "no_parser"]
        /\ jobFields = [j \in JobIds |-> IF j = 1 THEN fields ELSE DefaultFields]
        /\ jobExit = [j \in JobIds |-> NoExit]
        /\ jobCompletedAt = [j \in JobIds |-> j = 1 /\ status \in JobTerminal]

InitRetry ==
    /\ AnyJobRow /\ InitPipeline /\ wfDef = WfPlain /\ InitRun /\ InitQueue /\ InitUpsert
    /\ retryReply = "none"
    /\ InitParse
    /\ InitCond
    /\ InitMore

NextRetry ==
    \/ \E tool \in ToolNames : \E fields \in JobFieldChoices : create_job_with(tool, fields)
    \/ \E j \in JobIds : job_action_cancel(j)
    \/ job_action_commit
    \/ cancel_job_select
    \/ \E j \in JobIds : job_action_retry(j)
    \/ \E j \in JobIds : job_action_retry_rejected(j)

SpecRetry == InitRetry /\ [][NextRetry]_vars

(* evaluate_condition applied to every condition and context of the model *)
InitCondition ==
    /\ NoJobRows /\ InitPipeline /\ wfDef = WfPlain /\ InitRun
    /\ InitQueue /\ InitUpsert /\ InitFields /\ InitParse /\ InitMore
    /\ condData \in Contexts
    /\ condLeft \in LeftPaths
    /\ condOp \in Operators
    /\ condRight \in RightTokens
    /\ condResult = "none"

NextCondition == evaluate_condition

SpecCondition == InitCondition /\ [][NextCondition]_vars

(* the JSON-line parsers applied to every output of the model *)
InitParsers ==
    /\ NoJobRows /\ InitPipeline /\ wfDef = WfPlain /\ InitRun
    /\ InitQueue /\ InitUpsert /\ InitFields /\ InitParse /\ InitCond /\ InitResolved /\ InitToolNode
    /\ InitEngine /\ InitPublished
    /\ jlLines \in SeqsUpTo(OutputLines, MaxOutputLines)
    /\ jlOut = [p \in JsonlParsers |-> NoOutput]

NextParsers == \E parser \in JsonlParsers : parser_parse(parser)

SpecParsers == InitParsers /\ [][NextParsers]_vars

(* resolve_value applied to every value and context of the model *)
InitResolve ==
    /\ NoJobRows /\ InitPipeline /\ wfDef = WfPlain /\ InitRun
    /\ InitQueue /\ InitUpsert /\ InitFields /\ InitParse /\ InitCond /\ InitJsonl /\ InitToolNode
    /\ InitEngine /\ InitPublished
    /\ rvData \in Contexts
    /\ rvInput \in Resolvables
    /\ rvOutput = PyNull
    /\ rvDone = FALSE

NextResolve == context_resolve_value

SpecResolve == InitResolve /\ [][NextResolve]_vars

(* a run of a workflow of one tool node: the workflow task, the node's     *)
(* job and that job's executor task on the same task queue, after at most  *)
(* one job created through the API                                         *)
InitToolRun == NoJobRows /\ InitPipeline /\ wfDef = WfScan /\ InitRun /\ InitExt

NextToolRun ==
    \/ NextExecutor
    \/ \E tool \in ToolNames : tasks = <<>> /\ create_job(tool)
    \/ run_workflow
    \/ execute_workflow_begin
    \/ tool_node_create_job
    \/ tool_node_poll
    \/ tool_node_finish

SpecToolRun == InitToolRun /\ [][NextToolRun]_vars

(* WorkflowEngine.execute on a pending run of every workflow of the        *)
(* engine's catalogue, the coroutines of a parallel node interleaving at   *)
(* their awaits                                                            *)
InitEngineRun ==
    /\ NoJobRows /\ InitPipeline /\ InitQueue /\ InitUpsert /\ InitFields /\ InitParse
    /\ InitCond /\ InitJsonl /\ InitResolved /\ InitToolNode /\ InitEngine /\ InitPublished
    /\ wfDef \in EngineWorkflows
    /\ runStatus = "pending"
    /\ runCurrent = ""
    /\ runLog = <<>>
    /\ runCompletedAt = FALSE
    /\ runError = FALSE
    /\ wfPc = "idle"
    /\ suspBy = ""
    /\ resumeFrom = NoResume

NextEngine ==
    \/ engine_execute_begin
    \/ engine_execute_next
    \/ engine_execute_checked
    \/ \E c \in 1..Len(coros) : node_enter(c)
    \/ \E c \in 1..Len(coros) : node_executed(c)
    \/ \E c \in 1..Len(coros) : parallel_gather(c)
    \/ \E c \in 1..Len(coros) : parallel_gathered(c)
    \/ \E c \in 1..Len(coros) : loop_begin(c)
    \/ \E c \in 1..Len(coros) : loop_iterate(c)
    \/ \E c \in 1..Len(coros) : loop_body(c)
    \/ \E c \in 1..Len(coros) : loop_body_returned(c)
    \/ \E c \in 1..Len(coros) : loop_post(c)
    \/ \E c \in 1..Len(coros) : loop_post_returned(c)
    \/ \E c \in 1..Len(coros) : node_mark(c)
    \/ \E c \in 1..Len(coros) : node_successors(c)
    \/ \E c \in 1..Len(coros) : node_successor_returned(c)

SpecEngine == InitEngineRun /\ [][NextEngine]_vars

(* requests calling the upsert layer concurrently *)
NextUpsert ==
    \/ \E s \in Sessions : \E job \in UpsertJobs : \E out \in ParseOutputs :
           save_results_begin(s, job, out)
    \/ \E s \in Sessions : upsert_asset_select(s)
    \/ \E s \in Sessions : upsert_asset_flush(s)
    \/ \E s \in Sessions : save_results_rest(s)
    \/ \E s \in Sessions : save_results_raises(s)

SpecUpsert == InitQueueOnly /\ [][NextUpsert]_vars

(* the other requests are idle while request s is in save_results *)
Alone(s) == \A o \in Sessions \ {s} : upPc[o] = "idle"

(* one save_results call at a time, and users changing asset statuses *)
NextUpsertSeq ==
    \/ \E s \in Sessions : \E job \in UpsertJobs : \E out \in ParseOutputs :
           Alone(s) /\ save_results_begin(s, job, out)
    \/ \E s \in Sessions : upsert_asset_select(s)
    \/ \E s \in Sessions : upsert_asset_flush(s)
    \/ \E s \in Sessions : save_results_rest(s)
    \/ \E id \in 1..MaxRuns : \E status \in AssetStatuses : update_asset(id, status)

SpecUpsertSeq == InitQueueOnly /\ [][NextUpsertSeq]_vars

(***************************************************************************)
(* Properties                                                              *)
(***************************************************************************)
ParseEnqueued(j) ==
    \E t \in 1..Len(tasks) : tasks[t].func = "parse_job_results" /\ tasks[t].arg = j

(* C1: once a job's persisted status is completed, failed, timeout or       *)
(* cancelled, no later step (executor start or finish, cancel, retry)      *)
(* changes that status                                                     *)
C1_TerminalAbsorbing ==
    [][\A j \in JobIds : jobStatus[j] \in JobTerminal => jobStatus'[j] = jobStatus[j]]_vars

SequenceValues(j) == {jobOutputs[j][i].sequence : i \in 1..Len(jobOutputs[j])}

(* C2: when the executor has finished a job, the JobOutput rows written for *)
(* it carry the sequence values 0..n-1, none missing and none used twice,  *)
(* whatever the interleaving of the stdout and stderr readers              *)
C2_ContiguousSequences ==
    exPc = "return" =>
        SequenceValues(exJob) = 0..(Len(jobOutputs[exJob]) - 1)

(* the workflow with approval of the nodes in S granted at once *)
InstantApproval(g, S) ==
    [g EXCEPT !.nodes = [i \in 1..Len(g.nodes) |->
        IF g.nodes[i].id \in S THEN Node(g.nodes[i].id, "delay") ELSE g.nodes[i]]]

LogNodes(log, from) == {log[i].node_id : i \in from..Len(log)}

(* the nodes approved by the resume tasks that ran before the current one *)
EarlierApproved ==
    {tasks[t].arg : t \in {u \in 1..(wTask - 1) : tasks[u].func = "resume_workflow"}}

(* C3: when resume(N, approval) of a run suspended at manual node N has     *)
(* ended, the nodes it executed are those the uninterrupted traversal      *)
(* (approval of N granted at once) executes after N, and none of them was  *)
(* executed before the suspension                                          *)
C3_ResumeEquivalence ==
    (/\ WfTaskAt("resume_workflow", "return")
     /\ resumeFrom.status = "waiting_approval"
     /\ resumeFrom.node = resumeFrom.by) =>
        LET pre == Len(resumeFrom.log)
            ref == engine_execute(
                       InstantApproval(wfDef, EarlierApproved \cup {resumeFrom.node}),
                       <<>>, "")
        IN  /\ LogNodes(runLog, pre + 1) = LogNodes(ref.st.log, pre + 1)
            /\ LogNodes(runLog, pre + 1) \cap LogNodes(resumeFrom.log, 1) = {}

(* C4: a resume task that finds the run in another status than              *)
(* waiting_approval (a second approval of the same suspension, a resume    *)
(* after cancel) executes no node, and no step moves a cancelled,          *)
(* completed or failed run back to running                                 *)
C4_ResumeAtMostOnce ==
    [][/\ runStatus \in RunTerminal => runStatus' # "running"
       /\ (WfTaskAt("resume_workflow", "run") /\ resumeFrom.status # "waiting_approval")
              => runLog' = runLog]_vars

(* C5: a run in waiting_approval has current_node_id = the manual node that *)
(* asked for the approval; the workflow A -> B -> C with B manual suspends *)
(* with current_node_id = B and log entries for A and B in that order      *)
C5_SuspendedAtManualNode ==
    runStatus = "waiting_approval" =>
        /\ runCurrent = suspBy
        /\ (wfDef = WfChain /\ NumTasks("resume_workflow") = 0) =>
               /\ runCurrent = "B"
               /\ [i \in 1..Len(runLog) |-> runLog[i].node_id] = <<"A", "B">>

(* C6: a cancelled run stays cancelled with completed_at set, whatever an   *)
(* engine writes afterwards, and the cancel task changes nothing on a run  *)
(* that is already completed, failed or cancelled                          *)
C6_RunTerminalAbsorbing ==
    [][/\ runStatus = "cancelled" => (runStatus' = "cancelled" /\ runCompletedAt')
       /\ (WfTaskAt("cancel_workflow", "begin") /\ runStatus \in RunTerminal)
              => UNCHANGED <<runStatus, runCurrent, runLog, runCompletedAt, runError>>]_vars

(* C7: the executor's handling of the runner's timeout sets the job's       *)
(* status to timeout and completed_at, and enqueues no parse task          *)
C7_TimeoutStatus ==
    [][(exPc = "timed_out" /\ exPc' = "return") =>
           /\ jobStatus'[exJob] = "timeout"
           /\ jobCompletedAt'[exJob]
           /\ tasks' = tasks]_vars

(* C8: a job found cancelled when its executor task is dequeued is dropped: *)
(* the executor neither sets it running nor spawns its sub-process         *)
C8_CancelledBeforeDequeue ==
    (exPc # "idle" /\ exFound = "cancelled") =>
        /\ exPc \in {"start", "return"}
        /\ jobStatus[exJob] # "running"
        /\ exJob \notin spawned

(* the executor task of job j has returned *)
ExecutorReturned(j) ==
    \/ exPc = "return" /\ exJob = j
    \/ \E t \in 1..Len(tasks) :
           tasks[t].func = "execute_tool" /\ tasks[t].arg = j /\ tasks[t].status = "completed"

(* C9: a parse task exists for a job exactly when the executor ended it     *)
(* completed and its tool declares a parser; a failed, timeout or          *)
(* cancelled job has none                                                  *)
C9_ParseIffCompleted ==
    \A j \in JobIds :
        /\ ParseEnqueued(j) =>
               jobStatus[j] = "completed" /\ tool_output_parser(jobTool[j])
        /\ (ExecutorReturned(j) /\ jobStatus[j] = "completed"
                /\ tool_output_parser(jobTool[j])) => ParseEnqueued(j)

(* C10: while the queue is started at most max_workers tasks are running,   *)
(* and a pending task is started whenever fewer than max_workers run       *)
C10_WorkerPool ==
    tqRunning =>
        /\ NumRunning <= max_workers
        /\ (queue # <<>> /\ NumRunning < max_workers) => ENABLED WorkerGet

TaskIds == 1..MaxTasks

(* C11: a task whose callable raises ends failed with the exception text as *)
(* its error while the worker loop stays alive, and every pending task,    *)
(* enqueued before or after it, is executed afterwards                     *)
C11_FailureContained ==
    /\ [][\A t \in 1..Len(tasks) :
            (tasks[t].status = "running" /\ tasks[t].func \in RaisingFuncs
                 /\ tasks'[t].status # "running") =>
                /\ tasks'[t].status = "failed"
                /\ tasks'[t].error = "exception text"
                /\ workerLoops' = workerLoops]_vars
    /\ \A t \in TaskIds :
           (t <= Len(tasks) /\ tasks[t].status = "pending")
               ~> (t <= Len(tasks) /\ tasks[t].status \in {"completed", "failed"})

C11_Witness ==
    \E a \in 1..Len(tasks) : \E b \in 1..Len(tasks) : \E c \in 1..Len(tasks) :
        /\ a < b /\ b < c
        /\ tasks[b].status = "failed" /\ tasks[b].func \in RaisingFuncs
        /\ tasks[a].status = "completed"
        /\ tasks[c].status = "completed"

(* C12: whatever the interleaving of upserts in the project, no two Asset rows
   share the same (project, type, value). *)
C12_AssetUniqueness ==
    \A i, j \in 1..Len(assetRows) :
        assetRows[i].key = assetRows[j].key => i = j

(* C13: a save_results call on a job and output that were already saved     *)
(* reports no created vulnerabilities, credentials or results               *)
C13_SecondRunCreatesNothing ==
    lastRun.repeated =>
        /\ lastRun.stats.vulnerabilities_created = 0
        /\ lastRun.stats.credentials_created = 0
        /\ lastRun.stats.results_created = 0

(* C14: after any sequence of upserts of one (project, type, value), the    *)
(* row's tags are the union of the tags supplied, its risk_score the        *)
(* maximum supplied, its metadata holds for every key the value supplied    *)
(* last, and no upsert changes the status of a stored asset                 *)
C14_AssetMerge ==
    /\ [](\A i \in 1..Len(assetRows) :
            LET row == assetRows[i]
                h == {n \in 1..Len(upserted) : upserted[n].key = row.key}
            IN  /\ h # {}
                /\ row.tags = UNION {upserted[n].tags : n \in h}
                /\ \E n \in h : row.risk_score = upserted[n].risk_score
                /\ \A n \in h : row.risk_score >= upserted[n].risk_score
                /\ row.metadata =
                       {kv \in UNION {upserted[n].metadata : n \in h} :
                           \E n \in h :
                               /\ kv \in upserted[n].metadata
                               /\ \A m \in h : m > n =>
                                      \A other \in upserted[m].metadata : other[1] # kv[1]})
    /\ [][upserted' # upserted =>
              \A i \in 1..Len(assetRows) : assetRows'[i].status = assetRows[i].status]_vars

(* an upsert found the asset with a status set by a user, the status was   *)
(* changed again before the flush, and the flush merged into the row       *)
C14_Witness ==
    \E s \in Sessions :
        /\ upPc[s] = "rest"
        /\ upFound[s] # 0
        /\ upRow[s].status = "inactive"
        /\ assetRows[upFound[s]].status = "archived"
        /\ assetRows[upFound[s]].tags = {"web", "prod"}
        /\ assetRows[upFound[s]].risk_score = 5
        /\ <<"os", "linux">> \in assetRows[upFound[s]].metadata
        /\ <<"owner", "ops">> \in assetRows[upFound[s]].metadata

(* C15: a retry is accepted only for a failed, cancelled or timeout job; it *)
(* creates exactly one job, queued, with the original's project,           *)
(* tool_name, parameters, command, priority and timeout_seconds, enqueues  *)
(* its executor task and changes no field of any existing job; a rejected  *)
(* retry creates nothing                                                   *)
C15_Retry ==
    /\ [][\A n \in JobIds :
            (jobStatus[n] = "absent" /\ jobStatus'[n] # "absent" /\ jobRetryOf'[n] # 0) =>
                LET j == jobRetryOf'[n] IN
                /\ jobStatus[j] \in {"failed", "cancelled", "timeout"}
                /\ jobStatus'[n] = "queued"
                /\ jobTool'[n] = jobTool[j]
                /\ jobFields'[n] = jobFields[j]
                /\ \A k \in JobIds \ {n} :
                       /\ jobStatus'[k] = jobStatus[k]
                       /\ jobTool'[k] = jobTool[k]
                       /\ jobFields'[k] = jobFields[k]
                       /\ jobExit'[k] = jobExit[k]
                       /\ jobCompletedAt'[k] = jobCompletedAt[k]
                       /\ jobRetryOf'[k] = jobRetryOf[k]
                       /\ jobOutputs'[k] = jobOutputs[k]
                /\ Len(tasks') = Len(tasks) + 1
                /\ tasks'[Len(tasks')].func = "execute_tool"
                /\ tasks'[Len(tasks')].arg = n
                /\ queue' = Append(queue, Len(tasks'))
                /\ retryReply' = "retried"]_vars
    /\ [][(retryReply' # retryReply /\ retryReply' \in {"bad_request", "not_found"}) =>
              UNCHANGED <<jobVars, jobFields, tqVars>>]_vars
    /\ [](\A j \in JobIds :
            jobStatus[j] \notin {"failed", "cancelled", "timeout"} =>
                ~ENABLED job_action_retry(j))

(* a cancelled job with non-default fields was retried: the new job is    *)
(* queued with the same fields                                             *)
C15_Witness ==
    \E j \in JobIds : \E n \in JobIds :
        /\ jobRetryOf[n] = j
        /\ jobStatus[j] = "cancelled"
        /\ jobFields[j] = UrgentFields
        /\ jobFields[n] = UrgentFields
        /\ jobStatus[n] = "queued"
        /\ retryReply = "retried"

ScheduledRunning ==
    {t \in 1..Len(tasks) : tasks[t].func = "scheduled" /\ tasks[t].status = "running"}

(* the scheduler keeps the period: an iteration of the scheduler loop      *)
(* leaves a registered schedule stamped and not overdue, and two enqueues  *)
(* are never closer than the interval                                      *)
SchedulePeriodKept ==
    /\ [][(schedAwake /\ ~schedAwake' /\ schedLoops' > 0 /\ schedInterval # 0) =>
              /\ schedLast' # NoRun
              /\ now' - schedLast' < schedInterval]_vars
    /\ [](\A i \in 1..Len(schedTimes) :
            i > 1 => schedTimes[i] - schedTimes[i - 1] >= schedInterval)

(* C16: the scheduler enqueues an invocation every interval_seconds         *)
(* whatever earlier invocations do, and two invocations of the schedule    *)
(* are never in status running at the same time                            *)
C16_ScheduleNoOverlap ==
    /\ SchedulePeriodKept
    /\ [](Cardinality(ScheduledRunning) <= 1)

(* C17: tasks are started in submission order: a task that has left status *)
(* pending was enqueued after no task that is still pending, and the step  *)
(* that starts a task starts the one enqueued first among the pending      *)
C17_FifoStart ==
    /\ [](\A a \in 1..Len(tasks) : \A b \in 1..Len(tasks) :
            (a < b /\ tasks[b].status # "pending") => tasks[a].status # "pending")
    /\ [][\A b \in 1..Len(tasks) :
            (tasks[b].status = "pending" /\ tasks'[b].status = "running") =>
                \A a \in 1..Len(tasks) : a < b => tasks[a].status # "pending"]_vars

(* the first of three tasks has ended, the second is running and the      *)
(* third waits in the queue, on a queue that was stopped at some time      *)
C17_Witness ==
    /\ Len(tasks) = 3
    /\ Len(queue) = 1
    /\ tasks[1].status \in {"completed", "failed"}
    /\ tasks[2].status = "running"
    /\ tasks[3].status = "pending"
    /\ tpShutdown

(* C18: the lifecycle is idempotent: start() never leaves more than one     *)
(* worker loop and one scheduler loop, stop() on a stopped queue changes   *)
(* nothing, and after stop() and start() a sync or async callable that     *)
(* returns is executed to status completed as before the stop              *)
C18_LifecycleIdempotent ==
    /\ [](workerLoops <= 1 /\ schedLoops <= 1)
    /\ [][(~tqRunning /\ tpShutdown /\ ~tqRunning') =>
              /\ UNCHANGED <<lifeVars, wTask>>
              /\ \A t \in 1..Len(tasks) : tasks'[t] = tasks[t]]_vars
    /\ [](\A t \in 1..Len(tasks) :
            tasks[t].func \in PlainFuncs \ RaisingFuncs => tasks[t].status # "failed")

(* C19: once the parse task of a job that ended completed, and whose tool   *)
(* declares a registered parser, has itself ended, the job's stdout was    *)
(* parsed, the ParseOutput was handed to save_results and an event with    *)
(* status parsed was published for the job                                 *)
C19_CompletedJobParsed ==
    \A t \in 1..Len(tasks) :
        (/\ tasks[t].func = "parse_job_results"
         /\ tasks[t].status = "completed"
         /\ jobStatus[tasks[t].arg] = "completed"
         /\ get_parser(jobTool[tasks[t].arg])) =>
            /\ parseReturn[tasks[t].arg] = "success"
            /\ upStarted > 0
            /\ tasks[t].arg \in parsedEvents

(* C20: whenever the left side of a condition resolves to null,            *)
(* evaluate_condition returns false, whatever the operator and the right   *)
(* side are                                                                *)
C20_NullLeftIsFalse ==
    (condResult # "none" /\ resolve_path(condData, condLeft) = PyNull) =>
        condResult = "False"

NonJson(line) == line.kind \in {"broken", "text", "dotted"}
ValidJson(line) == line.kind \in {"json", "scalar"}

(* C21: on valid JSON lines mixed with at least one non-JSON line, every    *)
(* JSON-line parser returns the entities of the valid lines alone and a    *)
(* non-empty errors list                                                   *)
C21_NonJsonLinesSkipped ==
    \A parser \in JsonlParsers :
        (/\ jlOut[parser].done
         /\ \E i \in 1..Len(jlLines) : NonJson(jlLines[i])
         /\ \E i \in 1..Len(jlLines) : jlLines[i].kind = "json") =>
            LET alone == parse(parser, SelectSeq(jlLines, ValidJson)) IN
            /\ jlOut[parser].assets = alone.assets
            /\ jlOut[parser].vulnerabilities = alone.vulnerabilities
            /\ jlOut[parser].results = alone.results
            /\ jlOut[parser].errors # <<>>

(***************************************************************************)
(* C22: resolve_value returns, for a string that is exactly one ${path},   *)
(* the referenced value with its native type, or null when a step of the   *)
(* path fails; for any other string the string with each ${path} replaced  *)
(* by str() of its value and each unresolved reference by the empty        *)
(* string; mappings and lists are resolved element by element, and every   *)
(* other value comes back unchanged.                                       *)
(***************************************************************************)
Pieces(segments) ==
    [i \in 1..Len(segments) |->
        IF segments[i].kind = "lit" THEN segments[i].text
        ELSE LET value == resolve_path(rvData, segments[i].path)
             IN  IF value = PyNull THEN "" ELSE PyStr(value)]
RECURSIVE Joined(_)
Joined(pieces) == IF pieces = <<>> THEN "" ELSE Joined(SubSeq(pieces, 1, Len(pieces) - 1))
                                                \o pieces[Len(pieces)]
RECURSIVE ResolvedAs(_, _)
ResolvedAs(input, output) ==
    CASE input.t = "text" ->
            IF Len(input.v) = 1 /\ input.v[1].kind = "ref"
            THEN output = resolve_path(rvData, input.v[1].path)
            ELSE output = StrValue(Joined(Pieces(input.v)))
      [] input.t = "dict" ->
            /\ output.t = "dict"
            /\ DOMAIN output.v = DOMAIN input.v
            /\ \A k \in DOMAIN input.v : ResolvedAs(input.v[k], output.v[k])
      [] input.t = "list" ->
            /\ output.t = "list"
            /\ Len(output.v) = Len(input.v)
            /\ \A i \in 1..Len(input.v) : ResolvedAs(input.v[i], output.v[i])
      [] OTHER -> output = input
C22_ResolveValue == rvDone => ResolvedAs(rvInput, rvOutput)

(* a list holding a single reference to an int and a string with an        *)
(* unresolved reference has been resolved to the int and the bare text     *)
C22_Witness ==
    /\ rvDone
    /\ rvData = RunData
    /\ rvInput = ListValue(<<Text(<<Ref(<<Part("count")>>)>>),
                              Text(<<Lit("x="), Ref(<<Part("missing")>>)>>)>>)
    /\ rvOutput = ListValue(<<IntValue(5), StrValue("x=")>>)

(***************************************************************************)
(* C23: when a tool node of a run executed as a queue task has left its    *)
(* polling loop, the executor task it enqueued has been picked up by the   *)
(* worker, and the job has reached a terminal status: completed, with the  *)
(* node returning success, whenever the tool exited 0.                     *)
(***************************************************************************)
ToolNodeTask == CHOOSE t \in 1..Len(tasks) : tasks[t].func = "execute_tool" /\ tasks[t].arg = tnJob
C23_ToolNodeJobRuns ==
    tnResult # "none" =>
        /\ tasks[ToolNodeTask].status # "pending"
        /\ jobStatus[tnJob] \in JobTerminal
        /\ (jobExit[tnJob] = 0 => jobStatus[tnJob] = "completed" /\ tnResult = "ok")

(***************************************************************************)
(* Histories of a traversal                                                *)
(***************************************************************************)
Visited == {visits[i] : i \in 1..Len(visits)}
Visits(n) == Cardinality({i \in 1..Len(visits) : visits[i] = n})
RunEnded == coros # <<>> /\ coros[1].stack = <<>>
LoopNodes(g) == {n \in NodeIds(g) : NodeTypeOf(g, n) = "loop"}
SeqSet(q) == {q[i] : i \in 1..Len(q)}

(* the nodes reachable from the set S along the edges es *)
RECURSIVE ReachVia(_, _)
ReachVia(es, S) ==
    LET next == S \cup {e.target : e \in {x \in SeqSet(es) : x.source \in S}}
    IN  IF next = S THEN S ELSE ReachVia(es, next)

(* the body of loop l: its body children and what they reach along edges   *)
(* labelled body or not labelled                                           *)
BodyNodes(g, l) ==
    ReachVia(SelectSeq(g.edges, LAMBDA e : EdgeLabel(e) \in {"", "body"}),
             SeqSet(BodyChildren(g, l)))

(***************************************************************************)
(* C24: execution_log is append-only in node-visit order: its i-th entry   *)
(* is the entry of the i-th node visited, whatever node has been completed *)
(* since, parallel and loop nodes included.                                *)
(***************************************************************************)
C24_LogInVisitOrder ==
    /\ Len(runLog) = Len(visits)
    /\ \A i \in 1..Len(runLog) : runLog[i].node_id = visits[i]

(***************************************************************************)
(* C25: a node outside every loop body is executed at most once in a       *)
(* traversal, also when two children of a parallel node share a successor. *)
(***************************************************************************)
C25_ExecutedAtMostOnce ==
    \A n \in NodeIds(wfDef) :
        (\A l \in LoopNodes(wfDef) : n \notin ReachVia(wfDef.edges, SeqSet(BodyChildren(wfDef, l))))
            => Visits(n) <= 1

(***************************************************************************)
(* C26: a run in which a node returned failure or raised ends failed, with *)
(* error_message set and error_node_id naming a node that failed; it is    *)
(* never completed.                                                        *)
(***************************************************************************)
C26_FailureFailsRun ==
    (RunEnded /\ failures # {} /\ runStatus # "waiting_approval") =>
        /\ runStatus = "failed"
        /\ runError
        /\ errorNode \in failures

(***************************************************************************)
(* C28: after a condition node chose branch b, the target of an edge of    *)
(* that node is executed only if the edge's label or source handle is b,   *)
(* or if the edge has neither and no edge of the node carries b.           *)
(***************************************************************************)
Marked(e) == IF Get(e, "label", "") # "" THEN e.label ELSE Get(e, "sourceHandle", "")
C28_BranchEdgesOnly ==
    \A q \in NodeIds(wfDef) : NodeTypeOf(wfDef, q) = "condition" =>
        LET es == SeqSet(adjacency(wfDef, q))
            b == Branch(NodeOf(wfDef, q))
        IN  \A e \in es :
                e.target \in Visited =>
                    \/ Marked(e) = b
                    \/ (Marked(e) = "" /\ \A x \in es : Marked(x) # b)

(***************************************************************************)
(* C29: when a run has completed, every node of the body of a loop that    *)
(* had iterations, direct child or deeper, has been executed once per      *)
(* iteration.                                                              *)
(***************************************************************************)
C29_BodyRunsEveryIteration ==
    runStatus = "completed" =>
        \A l \in LoopNodes(wfDef) : LoopTotal(NodeOf(wfDef, l)) > 0 =>
            \A n \in BodyNodes(wfDef, l) : Visits(n) = LoopTotal(NodeOf(wfDef, l))

(***************************************************************************)
(* C30: a loop with no iteration succeeds without any node of its body     *)
(* being executed.                                                         *)
(***************************************************************************)
C30_EmptyLoopSkipsBody ==
    \A l \in LoopNodes(wfDef) : LoopTotal(NodeOf(wfDef, l)) = 0 =>
        /\ BodyNodes(wfDef, l) \cap Visited = {}
        /\ (RunEnded => runStatus = "completed")

(***************************************************************************)
(* C27: once cancel_workflow_task has cancelled a run, the engine starts   *)
(* no further node of it: a traversal that begins on the cancelled run     *)
(* appends nothing to execution_log.                                       *)
(***************************************************************************)
C27_NoNodeAfterCancel ==
    resumeFrom.status = "cancelled" => Len(runLog) = Len(resumeFrom.log)

(***************************************************************************)
(* C31: the result of a parallel node is success exactly when every child  *)
(* succeeded and none requires approval; it carries approval_required      *)
(* exactly when a child does, and a run whose parallel node carried it     *)
(* ends in waiting_approval.                                               *)
(***************************************************************************)
Gathered(c) ==
    /\ At(c, "mark")
    /\ NodeTypeOf(wfDef, Top(c).node) = "parallel"
    /\ Top(c).kids # {}
ParallelBlocked == \E c \in 2..Len(coros) : Approval(coros[c].ret)
C32_UndefinedNodeFailsRun ==
    (RunEnded /\ undefinedNodes # {} /\ runStatus # "waiting_approval") =>
        /\ runStatus = "failed"
        /\ runError

(***************************************************************************)
(* C33: once a manual approval node has been reached inside an iteration   *)
(* of a loop, as a body child or deeper, no node of the body is executed   *)
(* again, the run never waits for approval, and the loop node's log entry  *)
(* ends up failed, as does the run when the loop is a start node.          *)
(***************************************************************************)
ManualNodes(g) == {n \in NodeIds(g) : NodeTypeOf(g, n) = "manual"}
C33_ApprovalInLoopFails ==
    \A l \in LoopNodes(wfDef) :
        (BodyNodes(wfDef, l) \cap ManualNodes(wfDef) \cap Visited # {}) =>
            /\ \A n \in BodyNodes(wfDef, l) : Visits(n) <= 1
            /\ runStatus # "waiting_approval"
            /\ RunEnded =>
                    /\ \E i \in 1..Len(runLog) :
                            runLog[i].node_id = l /\ runLog[i].status = "failed"
                    /\ l \in SeqSet(start_node_ids(wfDef)) => runStatus = "failed"

(* the run of the loop whose body child B leads to the manual node M has   *)
(* ended failed after one visit of B and of M, two iterations being due    *)
C33_Witness ==
    /\ wfDef = WfLoopManualDeep
    /\ RunEnded
    /\ runStatus = "failed"
    /\ visits = <<"L", "B", "M">>

(***************************************************************************)
(* C34: after a loop node that iterated has finished, the context holds    *)
(* none of loop_index, loop_item, loop_total, loop_{id}_index and          *)
(* loop_{id}_item.                                                         *)
(***************************************************************************)
LoopKeys(l) ==
    {"loop_index", "loop_item", "loop_total", "loop_" \o l \o "_index",
     "loop_" \o l \o "_item"}
C34_LoopContextCleared ==
    RunEnded => \A l \in LoopNodes(wfDef) \cap Visited : LoopKeys(l) \cap DOMAIN ctxData = {}

(***************************************************************************)
(* C35: when the runner returns exit code N the executor sets exit_code to *)
(* N and completed_at, and the status to completed if N = 0 and otherwise  *)
(* to failed with error_message 'Tool exited with code N'; a job whose     *)
(* tool is not registered is failed with an error_message and completed_at *)
(* and is never running.                                                   *)
(***************************************************************************)
RunnerReturns == exPc = "wait" /\ exPc' = "emitted"
ToolMissing == exPc = "start" /\ ~get_tool(jobTool[exJob])
C36_CancelStopsProcess ==
    \A j \in cancelledAlive :
        (wTask # 0 /\ exJob = j /\ exPc = "wait") => procState # "exited"

(***************************************************************************)
(* C37: when run() raises the timeout error, the sub-process it spawned    *)
(* has exited: terminate() was sent, and kill() after 5 seconds if needed, *)
(* before the error is propagated.                                         *)
(***************************************************************************)
C37_TimeoutAfterKill == exPc = "timed_out" => procState \in {"exited", "killed"}

(* the deadline fired on a running sub-process, which has been ended *)
C37_Witness == exPc = "timed_out" /\ procState = "killed"

(***************************************************************************)
(* C38: when run() has ended with an error other than the timeout, raised  *)
(* by a reader whose output callback failed, the sub-process is no longer  *)
(* running.                                                                *)
(***************************************************************************)
C38_NoProcessAfterError ==
    (\E s \in Streams : rdPc[s] = "error") => procState # "alive"

(***************************************************************************)
(* C39: per job, the executor's running event precedes every job_output    *)
(* event, its terminal job_status event follows every job_output event,    *)
(* and each of its job_status events carries the status the row holds when *)
(* it is published.                                                        *)
(***************************************************************************)
C39_EventOrder ==
    \A j \in JobIds :
        LET ev == events[j]
            Status(i) == ev[i].type = "job_status" /\ ev[i].by = "executor"
            Output(i) == ev[i].type = "job_output"
        IN  /\ \A i \in 1..Len(ev) : Output(i) =>
                    \E k \in 1..(i - 1) : Status(k) /\ ev[k].status = "running"
            /\ \A i \in 1..Len(ev) : (Status(i) /\ ev[i].status # "running") =>
                    \A k \in (i + 1)..Len(ev) : ~Output(k)
            /\ \A i \in 1..Len(ev) : Status(i) => ev[i].status = ev[i].persisted

(***************************************************************************)
(* C40: a task record with completed_at set has status completed or        *)
(* failed, also when stop() cancelled the worker while the task was in     *)
(* flight.                                                                 *)
(***************************************************************************)
C40_CompletedAtMeansEnded ==
    \A t \in 1..Len(tasks) :
        tasks[t].completed_at => tasks[t].status \in {"completed", "failed"}

====
